---- MODULE Spec2Model ----
(***************************************************************************)
(* A model of the SQL-dump to JSON converter (class SQLToJSONConverter).   *)
(* Two implementations live in the repository: the TypeScript one          *)
(* (src/unnamed/part_001) and the JavaScript one (src/bin/cli.js).  Text   *)
(* is modelled as a sequence of one-character strings, so that the         *)
(* scanners and the regular expressions of the code are computed character *)
(* by character, as the code computes them.                                *)
(***************************************************************************)
EXTENDS Integers, Sequences, FiniteSets, TLC

VARIABLES
    impl,                 \* "ts" (part_001) or "js" (bin/cli.js)
    limit,                \* this.limit: 0 stands for null (no limit)
    skipUnparsable,       \* this.skipUnparsable
    tables,               \* this.tables: own entries in enumeration order
    processedStatements,  \* this.processedStatements
    insideTransaction,    \* this.insideTransaction
    currentTable,         \* this.currentTable: <<>> stands for null
    result,               \* what the last call of processStatement returned
    lastStmt,             \* history: the statement given to the last call
    before,               \* history: the converter's fields before the last call
    presented,            \* history: number of non-empty statements given so far
    dispatched,           \* history: number of calls that passed the limit check
    diagnostics,          \* the messages written with console.error, in order
    driver,               \* which driver runs: processLargeSQL, sqlToJson, sqlToJsonFiles
    outputMode,           \* this.outputMode: "combined" or "separate"
    pc,                   \* position of the driver / of the pure-function harness
    input,                \* driver: the input text; harness: the argument
    pending,              \* driver: lines or statements not yet read
    currentStatement,     \* processLargeSQL: the accumulator
    stopped,              \* history: a driver received the stop signal
    tablesAtStop,         \* history: the registry when the stop signal came
    outputs,              \* the outputs written or returned, in order
    output                \* harness: the value a pure function returned

vars == <<impl, limit, skipUnparsable, tables, processedStatements, insideTransaction,
          currentTable, result, lastStmt, before, presented, dispatched, diagnostics, driver,
          outputMode, pc, input, pending, currentStatement, stopped, tablesAtStop, outputs,
          output>>

converterVars == <<tables, processedStatements, insideTransaction, currentTable,
                   result, lastStmt, before, presented, dispatched, diagnostics>>

driverVars == <<driver, outputMode, pc, pending, currentStatement, stopped, tablesAtStop,
                outputs>>

harnessVars == <<input, output>>

(***************************************************************************)
(* Characters and strings                                                  *)
(***************************************************************************)

Lower == <<"a","b","c","d","e","f","g","h","i","j","k","l","m",
           "n","o","p","q","r","s","t","u","v","w","x","y","z">>

Upper == <<"A","B","C","D","E","F","G","H","I","J","K","L","M",
           "N","O","P","Q","R","S","T","U","V","W","X","Y","Z">>

Digits == <<"0","1","2","3","4","5","6","7","8","9">>

\* the backquote character, which a string of this notation cannot hold
Backtick == "backquote"

\* TRUE for every x.  The model checker computes an operator's argument when it is
\* first used; testing Evaluated(x) makes it compute x there, which keeps a loop
\* over a long text from nesting one evaluation per character.
Evaluated(x) == x = x

\* \s of a JavaScript regular expression, and what String.prototype.trim removes
IsSpace(c) == c \in {" ", "\t", "\n", "\r"}

\* \d of a JavaScript regular expression
IsDigit(c) == \E i \in 1..10 : Digits[i] = c

DigitValue(c) == (CHOOSE i \in 1..10 : Digits[i] = c) - 1

\* the position of each lower-case letter in the alphabet
LowerIndex == [c \in {Lower[i] : i \in 1..26} |-> CHOOSE i \in 1..26 : Lower[i] = c]

\* String.prototype.toUpperCase, one character
ToUpperChar(c) == IF c \in DOMAIN LowerIndex THEN Upper[LowerIndex[c]] ELSE c

\* the least element of a non-empty set of integers
Min(S) == CHOOSE x \in S : \A y \in S : x <= y

\* the greatest element of a non-empty set of integers
Max(S) == CHOOSE x \in S : \A y \in S : y <= x

\* String.prototype.toUpperCase
ToUpperCase(s) == [i \in 1..Len(s) |-> ToUpperChar(s[i])]

\* String.prototype.startsWith
StartsWith(s, p) == Len(s) >= Len(p) /\ SubSeq(s, 1, Len(p)) = p

\* String.prototype.endsWith
EndsWith(s, p) == Len(s) >= Len(p) /\ SubSeq(s, Len(s) - Len(p) + 1, Len(s)) = p

\* whether p occurs in s at (1-based) position i
OccursAt(s, p, i) ==
    i >= 1 /\ i + Len(p) - 1 <= Len(s) /\ \A k \in 1..Len(p) : s[i + k - 1] = p[k]

\* the same, letters compared without regard to case (the i flag of a regular expression)
OccursAtCI(s, p, i) ==
    i >= 1 /\ i + Len(p) - 1 <= Len(s)
    /\ \A k \in 1..Len(p) : ToUpperChar(s[i + k - 1]) = ToUpperChar(p[k])

\* s.toUpperCase().startsWith(p), for a p in upper case
UpperStartsWith(s, p) == Len(s) >= Len(p) /\ ToUpperCase(SubSeq(s, 1, Len(p))) = p

\* String.prototype.includes
Includes(s, p) == \E i \in 1..(Len(s) + 1) : OccursAt(s, p, i)

\* String.prototype.indexOf / lastIndexOf for one character; 0 stands for -1,
\* positions are 1-based
IndexOf(s, c) ==
    IF \E i \in 1..Len(s) : s[i] = c THEN Min({i \in 1..Len(s) : s[i] = c}) ELSE 0

LastIndexOf(s, c) ==
    IF \E i \in 1..Len(s) : s[i] = c THEN Max({i \in 1..Len(s) : s[i] = c}) ELSE 0

\* the first position >= i that holds no white space (Len(s) + 1 when there is none)
RECURSIVE SkipSpace(_, _)
SkipSpace(s, i) == IF i <= Len(s) /\ IsSpace(s[i]) THEN SkipSpace(s, i + 1) ELSE i

\* the last position <= i that holds no white space (0 when there is none)
RECURSIVE SkipSpaceBack(_, _)
SkipSpaceBack(s, i) == IF i >= 1 /\ IsSpace(s[i]) THEN SkipSpaceBack(s, i - 1) ELSE i

\* String.prototype.trim
Trim(s) == SubSeq(s, SkipSpace(s, 1), SkipSpaceBack(s, Len(s)))

\* whether s holds white space only (s.trim() is the empty string, which is falsy)
IsBlank(s) == \A i \in 1..Len(s) : IsSpace(s[i])

\* String.prototype.split for a one-character separator
RECURSIVE SplitChar(_, _)
SplitChar(s, c) ==
    LET i == IndexOf(s, c) IN
    IF i = 0 THEN <<s>>
    ELSE <<SubSeq(s, 1, i - 1)>> \o SplitChar(SubSeq(s, i + 1, Len(s)), c)

\* a replacement that takes every a away, whatever follows it
ReplaceAll2MutAnyEscape(s, a, b, y) == SelectSeq(s, LAMBDA c : c # a)

\* replace(/x/g, y) for a two-character pattern x = <<a, b>> and a one-character y
RECURSIVE ReplaceAll2(_, _, _, _)
ReplaceAll2(s, a, b, y) ==
    IF Len(s) = 0 THEN <<>>
    ELSE IF Len(s) >= 2 /\ s[1] = a /\ s[2] = b
         THEN <<y>> \o ReplaceAll2(SubSeq(s, 3, Len(s)), a, b, y)
         ELSE <<s[1]>> \o ReplaceAll2(SubSeq(s, 2, Len(s)), a, b, y)

(***************************************************************************)
(* Typed values (null | number | string)                                   *)
(*                                                                         *)
(* A JavaScript number is kept as mant * 10^(-exp) in lowest terms, so     *)
(* that parseInt("5") and parseFloat("5.0") are the same value, as they    *)
(* are in JavaScript, while 5 and "5" are not.                             *)
(***************************************************************************)

\* the literal NULL, compared in upper case
KwNull == <<"N","U","L","L">>

NullValue == [kind |-> "null", text |-> <<>>, mant |-> 0, exp |-> 0]

StringValue(t) == [kind |-> "string", text |-> t, mant |-> 0, exp |-> 0]

RECURSIVE Normalize(_, _)
Normalize(m, e) == IF e > 0 /\ m % 10 = 0 THEN Normalize(m \div 10, e - 1) ELSE <<m, e>>

NumberValue(m, e) ==
    LET n == Normalize(m, e) IN [kind |-> "number", text |-> <<>>, mant |-> n[1], exp |-> n[2]]

\* the value of a string of decimal digits
RECURSIVE DigitsValue(_)
DigitsValue(s) ==
    IF Len(s) = 0 THEN 0
    ELSE 10 * DigitsValue(SubSeq(s, 1, Len(s) - 1)) + DigitValue(s[Len(s)])

AllDigits(s) == Len(s) >= 1 /\ \A i \in 1..Len(s) : IsDigit(s[i])

\* /^-?\d+$/
IsIntegerToken(v) ==
    LET body == IF Len(v) >= 1 /\ v[1] = "-" THEN Tail(v) ELSE v IN AllDigits(body)

\* /^-?\d+\.\d+$/
IsDecimalToken(v) ==
    LET body == IF Len(v) >= 1 /\ v[1] = "-" THEN Tail(v) ELSE v
        dot  == IndexOf(body, ".")
    IN  dot # 0
        /\ AllDigits(SubSeq(body, 1, dot - 1))
        /\ AllDigits(SubSeq(body, dot + 1, Len(body)))

\* parseInt(value, 10) of a token that IsIntegerToken accepts
ParseInt(v) ==
    IF v[1] = "-" THEN NumberValue(0 - DigitsValue(Tail(v)), 0)
    ELSE NumberValue(DigitsValue(v), 0)

\* parseFloat(value) of a token that IsDecimalToken accepts
ParseFloat(v) ==
    LET neg  == v[1] = "-"
        body == IF neg THEN Tail(v) ELSE v
        dot  == IndexOf(body, ".")
        all  == SubSeq(body, 1, dot - 1) \o SubSeq(body, dot + 1, Len(body))
        m    == DigitsValue(all)
    IN  NumberValue(IF neg THEN 0 - m ELSE m, Len(body) - dot)

CleanValueMutNumberFirst(value) ==
    LET v == Trim(value) IN
    IF ToUpperCase(v) = KwNull THEN NullValue
    ELSE IF IsIntegerToken(v) THEN ParseInt(v)
    ELSE IF IsDecimalToken(v) THEN ParseFloat(v)
    ELSE IF Len(v) >= 1 /\ v[1] \in {"'", "\""} THEN StringValue(SubSeq(v, 2, Len(v) - 1))
    ELSE StringValue(v)

CleanValueMutInner(value) ==
    LET v == Trim(value)
        w == IF Len(v) >= 2 /\ v[1] = v[Len(v)] /\ v[1] \in {"'", "\""}
             THEN SubSeq(v, 2, Len(v) - 1) ELSE v
    IN  IF ToUpperCase(w) = KwNull THEN NullValue
        ELSE IF IsIntegerToken(w) THEN ParseInt(w)
        ELSE IF IsDecimalToken(w) THEN ParseFloat(w)
        ELSE StringValue(w)

\* cleanValue
CleanValue(value) ==
    LET v == Trim(value) IN
    IF ToUpperCase(v) = KwNull THEN NullValue
    ELSE IF (StartsWith(v, <<"'">>) /\ EndsWith(v, <<"'">>))
            \/ (StartsWith(v, <<"\"">>) /\ EndsWith(v, <<"\"">>))
         THEN StringValue(ReplaceAll2(ReplaceAll2(SubSeq(v, 2, Len(v) - 1),
                                                  "\\", "'", "'"),
                                      "\\", "\"", "\""))
    ELSE IF IsIntegerToken(v) THEN ParseInt(v)
    ELSE IF IsDecimalToken(v) THEN ParseFloat(v)
    ELSE StringValue(v)

(***************************************************************************)
(* parseValues: one left-to-right scan with inString, stringChar, depth    *)
(***************************************************************************)

\* the scanner's state before any character is read
ScanInit == [values |-> <<>>, current |-> <<>>, inString |-> FALSE,
             stringChar |-> "", depth |-> 0]

ScanStepMutNoEscape(st, s, i) ==
    LET char == s[i] IN
    IF ~st.inString THEN
        IF char = "'" \/ char = "\""
        THEN [st EXCEPT !.inString = TRUE, !.stringChar = char, !.current = @ \o <<char>>]
        ELSE IF char = "(" \/ char = "{"
        THEN [st EXCEPT !.depth = @ + 1, !.current = @ \o <<char>>]
        ELSE IF char = ")" \/ char = "}"
        THEN [st EXCEPT !.depth = @ - 1, !.current = @ \o <<char>>]
        ELSE IF char = "," /\ st.depth = 0
        THEN [st EXCEPT !.values = @ \o <<CleanValue(Trim(st.current))>>, !.current = <<>>]
        ELSE [st EXCEPT !.current = @ \o <<char>>]
    ELSE
        IF char = st.stringChar
        THEN [st EXCEPT !.current = @ \o <<char>>, !.inString = FALSE]
        ELSE [st EXCEPT !.current = @ \o <<char>>]

\* the body of the for loop of parseValues, for the character at position i
ScanStep(st, s, i) ==
    LET char == s[i] IN
    IF ~st.inString THEN
        IF char = "'" \/ char = "\""
        THEN [st EXCEPT !.inString = TRUE, !.stringChar = char, !.current = @ \o <<char>>]
        ELSE IF char = "(" \/ char = "{"
        THEN [st EXCEPT !.depth = @ + 1, !.current = @ \o <<char>>]
        ELSE IF char = ")" \/ char = "}"
        THEN [st EXCEPT !.depth = @ - 1, !.current = @ \o <<char>>]
        ELSE IF char = "," /\ st.depth = 0
        THEN [st EXCEPT !.values = @ \o <<CleanValue(Trim(st.current))>>, !.current = <<>>]
        ELSE [st EXCEPT !.current = @ \o <<char>>]
    ELSE
        \* valueString[i - 1] is undefined for i = 0, which differs from a backslash
        IF char = st.stringChar /\ (i = 1 \/ s[i - 1] # "\\")
        THEN [st EXCEPT !.current = @ \o <<char>>, !.inString = FALSE]
        ELSE [st EXCEPT !.current = @ \o <<char>>]

\* the for loop of parseValues over the positions lo..hi, begun in state st.  The
\* range is halved, and the state is computed before the loop goes on, only to keep
\* the evaluation shallow: the result is that of hi - lo + 1 steps in order.
RECURSIVE ScanRange(_, _, _, _)
ScanRange(st, s, lo, hi) ==
    IF ~Evaluated(st) \/ lo > hi THEN st
    ELSE IF lo = hi THEN ScanStep(st, s, lo)
    ELSE ScanRange(ScanRange(st, s, lo, (lo + hi) \div 2), s, (lo + hi) \div 2 + 1, hi)

\* the scanner's state after the first n characters
Scan(s, n) == ScanRange(ScanInit, s, 1, n)

\* parseValues
ParseValues(valueString) ==
    LET st == Scan(valueString, Len(valueString)) IN
    IF ~IsBlank(st.current)
    THEN st.values \o <<CleanValue(Trim(st.current))>>
    ELSE st.values

(***************************************************************************)
(* Keywords and literals of the code                                       *)
(***************************************************************************)

KwCreateTable == <<"C","R","E","A","T","E"," ","T","A","B","L","E">>

KwInsertInto == <<"I","N","S","E","R","T"," ","I","N","T","O">>

KwValues == <<"V","A","L","U","E","S">>

KwDropTable == <<"D","R","O","P"," ","T","A","B","L","E">>

KwStartTransaction == <<"S","T","A","R","T"," ","T","R","A","N","S","A","C","T","I","O","N">>

KwCommit == <<"C","O","M","M","I","T">>

KwPrimaryKey == <<"P","R","I","M","A","R","Y"," ","K","E","Y">>

KwKey == <<"K","E","Y"," ">>

KwUniqueKey == <<"U","N","I","Q","U","E"," ","K","E","Y">>

KwForeignKey == <<"F","O","R","E","I","G","N"," ","K","E","Y">>

KwEngine == <<"E","N","G","I","N","E","=">>

ServmaskPrefix == <<"S","E","R","V","M","A","S","K","_","P","R","E","F","I","X","_">>

NameConstructor == <<"c","o","n","s","t","r","u","c","t","o","r">>

NameToString == <<"t","o","S","t","r","i","n","g">>

NameValueOf == <<"v","a","l","u","e","O","f">>

\* Some of the properties every object literal {} inherits from Object.prototype:
\* this.tables[name] finds them for a name that was never assigned.  (The name
\* __proto__, whose assignment is an accessor call, is left out of the inputs.)
ObjectPrototypeKeys == {NameConstructor, NameToString, NameValueOf}

(***************************************************************************)
(* parseCreateTable                                                        *)
(***************************************************************************)

\* what a parse function returns when it returns null
NoTable == [ok |-> FALSE, tableName |-> <<>>, columns |-> <<>>, data |-> <<>>]

\* the end of the greedy run [^`\s(]+ that starts at position i
RECURSIVE NameEnd(_, _)
NameEnd(s, i) ==
    IF i <= Len(s) /\ ~IsSpace(s[i]) /\ s[i] # Backtick /\ s[i] # "("
    THEN NameEnd(s, i + 1) ELSE i

\* /CREATE TABLE\s+`?([^`\s(]+)`?\s*\(/i tried at position p: the captured name,
\* or <<>> when the pattern does not match there
CreateMatchAt(s, p) ==
    IF ~OccursAtCI(s, KwCreateTable, p) THEN <<>>
    ELSE LET a == p + Len(KwCreateTable)
             b == SkipSpace(s, a)
             c == IF b <= Len(s) /\ s[b] = Backtick THEN b + 1 ELSE b
             d == NameEnd(s, c)
             e == IF d <= Len(s) /\ s[d] = Backtick THEN d + 1 ELSE d
             f == SkipSpace(s, e)
         IN  IF b > a /\ d > c /\ f <= Len(s) /\ s[f] = "("
             THEN SubSeq(s, c, d - 1) ELSE <<>>

\* sql.match(/CREATE TABLE.../i)[1]: the leftmost match, <<>> when there is none
CreateTableMatch(s) ==
    IF \E p \in 1..Len(s) : CreateMatchAt(s, p) # <<>>
    THEN CreateMatchAt(s, Min({p \in 1..Len(s) : CreateMatchAt(s, p) # <<>>}))
    ELSE <<>>

\* name.replace(/^SERVMASK_PREFIX_/, '')
StripPrefix(name) ==
    IF StartsWith(name, ServmaskPrefix)
    THEN SubSeq(name, Len(ServmaskPrefix) + 1, Len(name)) ELSE name

\* sql.substring(startParen + 1, endParen), the parentheses given by their 1-based
\* positions; substring swaps its arguments when the first exceeds the second
ColumnsPart(sql, startParen, endParen) ==
    IF startParen <= endParen - 1
    THEN SubSeq(sql, startParen + 1, endParen - 1)
    ELSE SubSeq(sql, endParen, startParen)

\* the segments to skip: empty, comments, key definitions, ENGINE
SkipDefinition(trimmed) ==
    \/ Len(trimmed) = 0
    \/ StartsWith(trimmed, <<"-", "-">>)
    \/ UpperStartsWith(trimmed, KwPrimaryKey)
    \/ UpperStartsWith(trimmed, KwKey)
    \/ UpperStartsWith(trimmed, KwUniqueKey)
    \/ UpperStartsWith(trimmed, KwForeignKey)
    \/ Includes(ToUpperCase(trimmed), KwEngine)

\* the state of the comma splitter of the TypeScript parseCreateTable
SplitInit == [defs |-> <<>>, current |-> <<>>, parenDepth |-> 0]

SplitStepMutNoDepth(st, char) ==
    IF char = ","
    THEN [st EXCEPT !.defs = @ \o <<Trim(st.current)>>, !.current = <<>>]
    ELSE [st EXCEPT !.current = @ \o <<char>>]

\* the body of its for loop
SplitStep(st, char) ==
    IF char = "("
    THEN [st EXCEPT !.parenDepth = @ + 1, !.current = @ \o <<char>>]
    ELSE IF char = ")"
    THEN [st EXCEPT !.parenDepth = @ - 1, !.current = @ \o <<char>>]
    ELSE IF char = "," /\ st.parenDepth = 0
    THEN [st EXCEPT !.defs = @ \o <<Trim(st.current)>>, !.current = <<>>]
    ELSE [st EXCEPT !.current = @ \o <<char>>]

\* its for loop over the positions lo..hi, begun in state st (halved as ScanRange is)
RECURSIVE SplitRange(_, _, _, _)
SplitRange(st, s, lo, hi) ==
    IF ~Evaluated(st) \/ lo > hi THEN st
    ELSE IF lo = hi THEN SplitStep(st, s[lo])
    ELSE SplitRange(SplitRange(st, s, lo, (lo + hi) \div 2), s, (lo + hi) \div 2 + 1, hi)

SplitScan(s, n) == SplitRange(SplitInit, s, 1, n)

\* columnDefs of the TypeScript parseCreateTable
ColumnDefs(columnsPart) ==
    LET st == SplitScan(columnsPart, Len(columnsPart)) IN
    IF ~IsBlank(st.current) THEN st.defs \o <<Trim(st.current)>> ELSE st.defs

\* . of a regular expression without the s flag
HasLineTerminator(s) == \E i \in 1..Len(s) : s[i] \in {"\n", "\r"}

\* the end of the greedy run [^`\s]+ that starts at position i
RECURSIVE ColumnNameEnd(_, _)
ColumnNameEnd(s, i) ==
    IF i <= Len(s) /\ ~IsSpace(s[i]) /\ s[i] # Backtick THEN ColumnNameEnd(s, i + 1) ELSE i

NoColumn == [ok |-> FALSE, name |-> <<>>, type |-> <<>>]

\* trimmed.match(/^`?([^`\s]+)`?\s+(.+)$/) and the column built from it (TypeScript)
ColumnMatchTS(trimmed) ==
    LET c    == IF Len(trimmed) >= 1 /\ trimmed[1] = Backtick THEN 2 ELSE 1
        d    == ColumnNameEnd(trimmed, c)
        e    == IF d <= Len(trimmed) /\ trimmed[d] = Backtick THEN d + 1 ELSE d
        f    == SkipSpace(trimmed, e)
        rest == SubSeq(trimmed, f, Len(trimmed))
    IN  IF d > c /\ f > e /\ Len(rest) >= 1 /\ ~HasLineTerminator(rest)
        THEN [ok |-> TRUE, name |-> SubSeq(trimmed, c, d - 1), type |-> Trim(rest)]
        ELSE NoColumn

\* trimmed.match(/^`([^`]+)`\s+(.+?)(?:,\s*)?$/) and the column built from it
\* (JavaScript); the type loses one more trailing comma by replace(/,$/, '')
ColumnMatchJS(trimmed) ==
    LET d     == IF Len(trimmed) >= 2 /\ IndexOf(Tail(trimmed), Backtick) # 0
                 THEN IndexOf(Tail(trimmed), Backtick) + 1 ELSE 0
        f     == SkipSpace(trimmed, d + 1)
        rest  == SubSeq(trimmed, f, Len(trimmed))
        lazy  == IF Len(rest) >= 2 /\ rest[Len(rest)] = ","
                 THEN SubSeq(rest, 1, Len(rest) - 1) ELSE rest
        type  == Trim(lazy)
        type2 == IF Len(type) >= 1 /\ type[Len(type)] = ","
                 THEN SubSeq(type, 1, Len(type) - 1) ELSE type
    IN  IF Len(trimmed) >= 1 /\ trimmed[1] = Backtick /\ d > 2 /\ f > d + 1
           /\ Len(rest) >= 1 /\ ~HasLineTerminator(rest)
        THEN [ok |-> TRUE, name |-> SubSeq(trimmed, 2, d - 1), type |-> type2]
        ELSE NoColumn

\* the loop over the segments: a column for every segment that is not skipped and
\* that the pattern matches, in order
RECURSIVE ColumnsOf(_, _)
ColumnsOf(defs, im) ==
    IF Len(defs) = 0 THEN <<>>
    ELSE LET trimmed == Trim(Head(defs))
             m       == IF im = "ts" THEN ColumnMatchTS(trimmed) ELSE ColumnMatchJS(trimmed)
         IN  IF SkipDefinition(trimmed) \/ ~m.ok
             THEN ColumnsOf(Tail(defs), im)
             ELSE <<[name |-> m.name, type |-> m.type]>> \o ColumnsOf(Tail(defs), im)

\* the segments of the column body: split at depth-0 commas (TypeScript), or one
\* per line (JavaScript: columnsPart.split('\n'))
SegmentsMutTSByLine(columnsPart, im) == SplitChar(columnsPart, "\n")

Segments(columnsPart, im) ==
    IF im = "ts" THEN ColumnDefs(columnsPart) ELSE SplitChar(columnsPart, "\n")

ParseCreateTableMutKeepPrefix(sql, im) ==
    LET tableMatch == CreateTableMatch(sql)
        startParen == IndexOf(sql, "(")
        endParen   == LastIndexOf(sql, ")")
    IN  IF tableMatch = <<>> \/ startParen = 0 \/ endParen = 0 THEN NoTable
        ELSE [ok |-> TRUE, tableName |-> tableMatch,
              columns |-> ColumnsOf(Segments(ColumnsPart(sql, startParen, endParen), im), im),
              data |-> <<>>]

\* parseCreateTable of implementation im; nothing in its try block throws
ParseCreateTable(sql, im) ==
    LET tableMatch == CreateTableMatch(sql)
        startParen == IndexOf(sql, "(")
        endParen   == LastIndexOf(sql, ")")
    IN  IF tableMatch = <<>> THEN NoTable
        ELSE IF startParen = 0 \/ endParen = 0 THEN NoTable
        ELSE [ok |-> TRUE, tableName |-> StripPrefix(tableMatch),
              columns |-> ColumnsOf(Segments(ColumnsPart(sql, startParen, endParen), im), im),
              data |-> <<>>]

(***************************************************************************)
(* parseInsertInto (the same text in both implementations)                 *)
(***************************************************************************)

NoInsert == [ok |-> FALSE, tableName |-> <<>>, records |-> <<>>]

\* the rest of the INSERT pattern, `?\s*(?:\([^)]+\))?\s*VALUES, tried at position d
InsertTailMatches(s, d) ==
    LET e     == IF d <= Len(s) /\ s[d] = Backtick THEN d + 1 ELSE d
        f     == SkipSpace(s, e)
        close == IF f <= Len(s) /\ s[f] = "(" /\ IndexOf(SubSeq(s, f + 1, Len(s)), ")") # 0
                 THEN f + IndexOf(SubSeq(s, f + 1, Len(s)), ")") ELSE 0
    IN  \/ OccursAtCI(s, KwValues, f)
        \/ close > f + 1 /\ OccursAtCI(s, KwValues, SkipSpace(s, close + 1))

\* /INSERT INTO\s+`?([^`\s(]+)`?\s*(?:\([^)]+\))?\s*VALUES/i tried at position p: the
\* captured name (the longest run of name characters after which the rest of the
\* pattern matches), or <<>>
InsertMatchAt(s, p) ==
    IF ~OccursAtCI(s, KwInsertInto, p) THEN <<>>
    ELSE LET a    == p + Len(KwInsertInto)
             b    == SkipSpace(s, a)
             c    == IF b <= Len(s) /\ s[b] = Backtick THEN b + 1 ELSE b
             dmax == NameEnd(s, c)
             ends == {d \in (c + 1)..dmax : InsertTailMatches(s, d)}
         IN  IF b > a /\ ends # {}
             THEN SubSeq(s, c, Max(ends) - 1)
             ELSE <<>>

InsertIntoMatch(s) ==
    IF \E p \in 1..Len(s) : InsertMatchAt(s, p) # <<>>
    THEN InsertMatchAt(s, Min({p \in 1..Len(s) : InsertMatchAt(s, p) # <<>>}))
    ELSE <<>>

\* sql.match(/VALUES\s*(.*)/is)[1]: what follows the first VALUES of the statement
ValuesString(s) ==
    LET p == Min({q \in 1..Len(s) : OccursAtCI(s, KwValues, q)})
    IN  SubSeq(s, SkipSpace(s, p + Len(KwValues)), Len(s))

SeparatorEndMutLiteral(s, q) ==
    IF q + 2 <= Len(s) /\ s[q] = ")" /\ s[q + 1] = "," /\ s[q + 2] = "(" THEN q + 2 ELSE 0

\* /\),\s*\(/ tried at position q: the position of its last character, or 0
SeparatorEnd(s, q) ==
    IF q + 1 <= Len(s) /\ s[q] = ")" /\ s[q + 1] = ","
       /\ SkipSpace(s, q + 2) <= Len(s) /\ s[SkipSpace(s, q + 2)] = "("
    THEN SkipSpace(s, q + 2) ELSE 0

\* valuesString.split(/\),\s*\(/)
RECURSIVE SplitGroups(_)
SplitGroups(s) ==
    IF \E q \in 1..Len(s) : SeparatorEnd(s, q) # 0
    THEN LET q == Min({r \in 1..Len(s) : SeparatorEnd(s, r) # 0})
         IN  <<SubSeq(s, 1, q - 1)>> \o SplitGroups(SubSeq(s, SeparatorEnd(s, q) + 1, Len(s)))
    ELSE <<s>>

\* /\);?\s*$/ tried at position q
ClosingAt(g, q) ==
    g[q] = ")"
    /\ SkipSpace(g, IF q + 1 <= Len(g) /\ g[q + 1] = ";" THEN q + 2 ELSE q + 1) > Len(g)

\* valueGroup.replace(/^\(/, '').replace(/\);?\s*$/, '')
StripGroup(valueGroup) ==
    LET g == IF Len(valueGroup) >= 1 /\ valueGroup[1] = "(" THEN Tail(valueGroup)
             ELSE valueGroup
    IN  IF \E q \in 1..Len(g) : ClosingAt(g, q)
        THEN SubSeq(g, 1, Min({q \in 1..Len(g) : ClosingAt(g, q)}) - 1)
        ELSE g

\* the loop over the value groups; an array, even an empty one, is truthy, so
\* every group gives a record
RecordsOf(groups) == [i \in 1..Len(groups) |-> ParseValues(StripGroup(groups[i]))]

\* parseInsertInto; nothing in its try block throws
ParseInsertInto(sql) ==
    LET tableMatch == InsertIntoMatch(sql) IN
    IF tableMatch = <<>> THEN NoInsert
    ELSE [ok |-> TRUE, tableName |-> StripPrefix(tableMatch),
          records |-> RecordsOf(SplitGroups(ValuesString(sql)))]

(***************************************************************************)
(* The registry: this.tables, a plain object used as a map                 *)
(***************************************************************************)

\* the position of the own entry of that name, 0 when there is none
TablesIndex(tbls, name) ==
    IF \E i \in 1..Len(tbls) : tbls[i].tableName = name
    THEN CHOOSE i \in 1..Len(tbls) : tbls[i].tableName = name
    ELSE 0

\* whether a property name is an array index (a canonical non-negative integer):
\* such keys are enumerated first, in ascending order
IsArrayIndex(name) ==
    \* array indices are below 2^32 - 1, which every name of up to 9 digits is
    AllDigits(name) /\ (Len(name) = 1 \/ name[1] # "0") /\ Len(name) <= 9

\* the number of own keys that are enumerated before a new key of that name
KeysBefore(tbls, name) ==
    IF IsArrayIndex(name)
    THEN Cardinality({j \in 1..Len(tbls) :
             IsArrayIndex(tbls[j].tableName)
             /\ DigitsValue(tbls[j].tableName) < DigitsValue(name)})
    ELSE Len(tbls)

TablesSetMutAppend(tbls, info) == Append(tbls, info)

TablesSetMutKeepData(tbls, info) ==
    IF TablesIndex(tbls, info.tableName) # 0
    THEN [tbls EXCEPT ![TablesIndex(tbls, info.tableName)].columns = info.columns]
    ELSE Append(tbls, info)

\* this.tables[tableInfo.tableName] = tableInfo
TablesSet(tbls, info) ==
    IF TablesIndex(tbls, info.tableName) # 0
    THEN [tbls EXCEPT ![TablesIndex(tbls, info.tableName)] = info]
    ELSE SubSeq(tbls, 1, KeysBefore(tbls, info.tableName)) \o <<info>>
         \o SubSeq(tbls, KeysBefore(tbls, info.tableName) + 1, Len(tbls))

\* the entry parseCreateTable's result becomes
EntryOf(tableInfo) ==
    [tableName |-> tableInfo.tableName, columns |-> tableInfo.columns, data |-> tableInfo.data]

\* obj[key] = value on an object kept as its list of (key, value) in assignment order
ObjSet(obj, key, value) ==
    IF \E i \in 1..Len(obj) : obj[i].key = key
    THEN [i \in 1..Len(obj) |-> IF obj[i].key = key THEN [key |-> key, value |-> value]
                                ELSE obj[i]]
    ELSE Append(obj, [key |-> key, value |-> value])

ObjKeys(obj) == {obj[i].key : i \in 1..Len(obj)}

ObjGet(obj, key) == (CHOOSE p \in {obj[i] : i \in 1..Len(obj)} : p.key = key).value

BuildObjectMutNullFill(columns, record, n) ==
    [i \in 1..n |-> [key |-> columns[i].name,
                     value |-> IF i <= Len(record) THEN record[i] ELSE NullValue]]

BuildObjectMutKeepExcess(columns, record, n) ==
    [i \in 1..Len(record) |->
        [key |-> IF i <= n THEN columns[i].name ELSE <<"?">>, value |-> record[i]]]

\* table.columns.forEach((col, index) => { if (index < record.length) obj[col.name] =
\* record[index] }), for the first n columns
RECURSIVE BuildObject(_, _, _)
BuildObject(columns, record, n) ==
    IF n = 0 THEN <<>>
    ELSE IF n <= Len(record)
         THEN ObjSet(BuildObject(columns, record, n - 1), columns[n].name, record[n])
         ELSE BuildObject(columns, record, n - 1)

\* the loop "for (const record of insertInfo.records) ... table.data.push(obj)"
PushRecords(table, records) ==
    [table EXCEPT !.data = @ \o [i \in 1..Len(records) |->
                                    BuildObject(table.columns, records[i], Len(table.columns))]]

(***************************************************************************)
(* processStatement                                                        *)
(***************************************************************************)

\* what a call leaves: the converter's fields, the returned value ("continue" for
\* true, "stop" for false, "undefined", or "throw" when an error escapes), and
\* whether the call got past the limit check
Outcome(cs, r, d) == [state |-> cs, result |-> r, dispatched |-> d]

\* an INSERT that would go to the table created last
InsertBranchMutCurrentTable(cs, insertInfo) ==
    IF ~insertInfo.ok THEN Outcome(cs, "continue", TRUE)
    ELSE IF TablesIndex(cs.tables, cs.currentTable) # 0
    THEN Outcome([cs EXCEPT !.tables[TablesIndex(cs.tables, cs.currentTable)] =
                      PushRecords(@, insertInfo.records)], "continue", TRUE)
    ELSE Outcome(cs, "continue", TRUE)

\* the INSERT branch.  this.tables[name] is truthy for an own entry and also for a
\* name that {} inherits from Object.prototype; the inherited value has no columns,
\* so table.columns.forEach throws a TypeError at the first record.
InsertBranch(cs, insertInfo) ==
    IF ~insertInfo.ok THEN Outcome(cs, "continue", TRUE)
    ELSE IF TablesIndex(cs.tables, insertInfo.tableName) # 0
    THEN Outcome([cs EXCEPT !.tables[TablesIndex(cs.tables, insertInfo.tableName)] =
                      PushRecords(@, insertInfo.records)], "continue", TRUE)
    ELSE IF insertInfo.tableName \in ObjectPrototypeKeys /\ Len(insertInfo.records) > 0
    THEN Outcome(cs, "throw", TRUE)
    ELSE Outcome(cs, "continue", TRUE)

CreateBranchMutResetCurrent(cs, tableInfo) ==
    IF tableInfo.ok
    THEN Outcome([cs EXCEPT !.tables = TablesSet(@, EntryOf(tableInfo)),
                            !.currentTable = tableInfo.tableName], "continue", TRUE)
    ELSE Outcome([cs EXCEPT !.currentTable = <<>>], "continue", TRUE)

\* the CREATE TABLE branch
CreateBranch(cs, tableInfo) ==
    IF tableInfo.ok
    THEN Outcome([cs EXCEPT !.tables = TablesSet(@, EntryOf(tableInfo)),
                            !.currentTable = tableInfo.tableName], "continue", TRUE)
    ELSE Outcome(cs, "continue", TRUE)

\* sql.startsWith('START TRANSACTION') and sql.startsWith('COMMIT')
IsStartTransactionMutAnyCase(sql) == UpperStartsWith(sql, KwStartTransaction)

IsStartTransaction(sql) == StartsWith(sql, KwStartTransaction)

IsCommit(sql) == StartsWith(sql, KwCommit)

DropBranchMutEmptiesRegistry(cs) == Outcome([cs EXCEPT !.tables = <<>>], "continue", TRUE)

\* the DROP TABLE branch: return true; // Skip DROP statements
DropBranch(cs) == Outcome(cs, "continue", TRUE)

LimitReachedMutOnce(lim, count) == lim # 0 /\ count = lim + 1

LimitReachedMutOffByOne(lim, count) == lim # 0 /\ count >= lim

\* this.limit && this.processedStatements > this.limit
LimitReached(lim, count) == lim # 0 /\ count > lim

\* processStatement of implementation im, with limit lim, on a converter whose
\* fields are cs
ProcessStatementOf(im, lim, cs, rawSql) ==
    LET sql     == Trim(rawSql)
        counted == [cs EXCEPT !.processedStatements = @ + 1]
    IN  IF Len(sql) = 0
        THEN Outcome(cs, IF im = "ts" THEN "continue" ELSE "undefined", FALSE)
        ELSE IF LimitReached(lim, counted.processedStatements)
        THEN Outcome(counted, "stop", FALSE)
        ELSE IF IsStartTransaction(sql)
        THEN Outcome([counted EXCEPT !.insideTransaction = TRUE], "continue", TRUE)
        ELSE IF IsCommit(sql)
        THEN Outcome([counted EXCEPT !.insideTransaction = FALSE], "continue", TRUE)
        ELSE IF UpperStartsWith(sql, KwDropTable)
        THEN DropBranch(counted)
        ELSE IF UpperStartsWith(sql, KwCreateTable)
        THEN CreateBranch(counted, ParseCreateTable(sql, im))
        ELSE IF UpperStartsWith(sql, KwInsertInto)
        THEN InsertBranch(counted, ParseInsertInto(sql))
        ELSE Outcome(counted, "continue", TRUE)

\* the converter's fields, as a record
Converter == [tables |-> tables, processedStatements |-> processedStatements,
              insideTransaction |-> insideTransaction, currentTable |-> currentTable]

\* the fields after construction
NewConverter == [tables |-> <<>>, processedStatements |-> 0,
                 insideTransaction |-> FALSE, currentTable |-> <<>>]

\* the effect of one call of processStatement on the variables
\* the try blocks of parseCreateTable and parseInsertInto work on a string with
\* match, replace, indexOf, substring, split, trim, parseInt and parseFloat; a
\* pattern that does not match returns null before any of them could fail, and
\* none of them throws on a string, so the catch blocks are never entered
ParseCreateTableThrows(sql, im) == FALSE

ParseInsertIntoThrows(sql) == FALSE

\* catch (error) { if (!this.skipUnparsable) console.error(...) }
CreateDiagnostics(skip, sql, im) ==
    IF ParseCreateTableThrows(sql, im) /\ ~skip THEN <<"Error parsing CREATE TABLE">>
    ELSE <<>>

InsertDiagnostics(skip, sql) ==
    IF ParseInsertIntoThrows(sql) /\ ~skip THEN <<"Error parsing INSERT INTO">> ELSE <<>>

\* the messages that processStatement writes with console.error for one statement
Diagnostics(im, skip, lim, cs, rawSql) ==
    LET sql == Trim(rawSql) IN
    IF Len(sql) = 0 \/ LimitReached(lim, cs.processedStatements + 1) THEN <<>>
    ELSE IF StartsWith(sql, KwStartTransaction) \/ StartsWith(sql, KwCommit)
            \/ UpperStartsWith(sql, KwDropTable) THEN <<>>
    ELSE IF UpperStartsWith(sql, KwCreateTable) THEN CreateDiagnostics(skip, sql, im)
    ELSE IF UpperStartsWith(sql, KwInsertInto) THEN InsertDiagnostics(skip, sql)
    ELSE <<>>

Call(sql) ==
    LET o == ProcessStatementOf(impl, limit, Converter, sql) IN
    /\ tables' = o.state.tables
    /\ processedStatements' = o.state.processedStatements
    /\ insideTransaction' = o.state.insideTransaction
    /\ currentTable' = o.state.currentTable
    /\ result' = o.result
    /\ lastStmt' = sql
    /\ before' = Converter
    /\ presented' = IF IsBlank(sql) THEN presented ELSE presented + 1
    /\ dispatched' = IF o.dispatched THEN dispatched + 1 ELSE dispatched
    /\ diagnostics' = diagnostics \o Diagnostics(impl, skipUnparsable, limit, Converter, sql)

(***************************************************************************)
(* Spec: a converter that is given statements one at a time                *)
(***************************************************************************)

\* bounds of the model
MaxStatements == 3

MaxLimit == 2

\* CREATE TABLE t (a INT, b VARCHAR(10))
StmtCreateT == <<"C","R","E","A","T","E"," ","T","A","B","L","E"," ","t"," ","(","a"," ","I",
    "N","T",","," ","b"," ","V","A","R","C","H","A","R","(","1","0",")",")">>

\* CREATE TABLE `t` (\n`c` INT\n)
StmtCreateTQuoted == <<"C","R","E","A","T","E"," ","T","A","B","L","E"," ",Backtick,"t",
    Backtick," ","(","\n",Backtick,"c",Backtick," ","I","N","T","\n",")">>

\* CREATE TABLE `SERVMASK_PREFIX_u` (\n`x` INT,\n`y` DECIMAL(10,2)\n)
StmtCreateU == <<"C","R","E","A","T","E"," ","T","A","B","L","E"," ",Backtick,"S","E","R","V",
    "M","A","S","K","_","P","R","E","F","I","X","_","u",Backtick," ","(","\n",Backtick,"x",
    Backtick," ","I","N","T",",","\n",Backtick,"y",Backtick," ","D","E","C","I","M","A","L","(",
    "1","0",",","2",")","\n",")">>

\* CREATE TABLE IF NOT EXISTS t (a INT)
StmtCreateIfNotExists == <<"C","R","E","A","T","E"," ","T","A","B","L","E"," ","I","F"," ","N",
    "O","T"," ","E","X","I","S","T","S"," ","t"," ","(","a"," ","I","N","T",")">>

\* INSERT INTO t VALUES (1,'a'),(2,'b')
StmtInsertT2 == <<"I","N","S","E","R","T"," ","I","N","T","O"," ","t"," ","V","A","L","U","E",
    "S"," ","(","1",",","'","a","'",")",",","(","2",",","'","b","'",")">>

\* insert into t values (5)
StmtInsertT1 == <<"i","n","s","e","r","t"," ","i","n","t","o"," ","t"," ","v","a","l","u","e",
    "s"," ","(","5",")">>

\* INSERT INTO `t` (b) VALUES (1, NULL, 3.50);
StmtInsertT3 == <<"I","N","S","E","R","T"," ","I","N","T","O"," ",Backtick,"t",Backtick," ","(",
    "b",")"," ","V","A","L","U","E","S"," ","(","1",","," ","N","U","L","L",","," ","3",".","5",
    "0",")",";">>

\* INSERT INTO SERVMASK_PREFIX_u VALUES (7, 'x'), (8, 'y')
StmtInsertU == <<"I","N","S","E","R","T"," ","I","N","T","O"," ","S","E","R","V","M","A","S",
    "K","_","P","R","E","F","I","X","_","u"," ","V","A","L","U","E","S"," ","(","7",","," ","'",
    "x","'",")",","," ","(","8",","," ","'","y","'",")">>

\* INSERT INTO w VALUES (1)
StmtInsertW == <<"I","N","S","E","R","T"," ","I","N","T","O"," ","w"," ","V","A","L","U","E",
    "S"," ","(","1",")">>

\* INSERT INTO constructor VALUES (1)
StmtInsertConstructor == <<"I","N","S","E","R","T"," ","I","N","T","O"," ","c","o","n","s","t",
    "r","u","c","t","o","r"," ","V","A","L","U","E","S"," ","(","1",")">>

\* INSERT INTO t VALUES ('a), (b')
StmtInsertSpaced == <<"I","N","S","E","R","T"," ","I","N","T","O"," ","t"," ","V","A","L","U",
    "E","S"," ","(","'","a",")",","," ","(","b","'",")">>

\* INSERT INTO t SET a = 1
StmtInsertSet == <<"I","N","S","E","R","T"," ","I","N","T","O"," ","t"," ","S","E","T"," ","a",
    " ","="," ","1">>

\* drop table t
StmtDrop == <<"d","r","o","p"," ","t","a","b","l","e"," ","t">>

\* START TRANSACTION
StmtStart == <<"S","T","A","R","T"," ","T","R","A","N","S","A","C","T","I","O","N">>

\* COMMIT
StmtCommit == <<"C","O","M","M","I","T">>

\* SET NAMES utf8
StmtOther == <<"S","E","T"," ","N","A","M","E","S"," ","u","t","f","8">>

\*   
StmtBlank == <<" "," ">>

\* CREATE TABLE t (a INT
StmtCreateNoClose == <<"C","R","E","A","T","E"," ","T","A","B","L","E"," ","t"," ","(","a"," ",
    "I","N","T">>

\* start transaction
StmtStartLower == <<"s","t","a","r","t"," ","t","r","a","n","s","a","c","t","i","o","n">>
\* commit
StmtCommitLower == <<"c","o","m","m","i","t">>

Statements ==
    {StmtCreateT, StmtCreateTQuoted, StmtCreateU, StmtCreateIfNotExists, StmtCreateNoClose,
     StmtInsertT2, StmtInsertT1, StmtInsertT3, StmtInsertU, StmtInsertW,
     StmtInsertConstructor, StmtInsertSpaced, StmtInsertSet,
     StmtDrop, StmtStart, StmtCommit, StmtStartLower, StmtCommitLower, StmtOther, StmtBlank}

ConverterInit ==
    /\ tables = <<>>
    /\ processedStatements = 0
    /\ insideTransaction = FALSE
    /\ currentTable = <<>>
    /\ result = "none"
    /\ lastStmt = <<>>
    /\ before = NewConverter
    /\ presented = 0
    /\ dispatched = 0
    /\ diagnostics = <<>>

\* no driver runs
DriverIdle ==
    /\ driver = "none"
    /\ outputMode = "combined"
    /\ pc = "idle"
    /\ pending = <<>>
    /\ currentStatement = <<>>
    /\ stopped = FALSE
    /\ tablesAtStop = <<>>
    /\ outputs = <<>>

\* no pure function is being applied
HarnessIdle ==
    /\ input = <<>>
    /\ output = <<>>

Init ==
    /\ impl \in {"ts", "js"}
    /\ limit \in 0..MaxLimit
    /\ skipUnparsable \in BOOLEAN
    /\ ConverterInit
    /\ DriverIdle
    /\ HarnessIdle

\* a caller gives the converter one more statement
ProcessStatement ==
    /\ processedStatements < MaxStatements
    /\ \E sql \in Statements : Call(sql)
    /\ UNCHANGED <<impl, limit, skipUnparsable, driverVars, harnessVars>>

Next == ProcessStatement

Spec == Init /\ [][Next]_vars

(***************************************************************************)
(* Properties of processStatement, checked under Spec                      *)
(***************************************************************************)

\* the last call got past the empty-statement test and the limit check
LastDispatched == ~IsBlank(lastStmt) /\ result \in {"continue", "throw"}

LastIsCreate == UpperStartsWith(Trim(lastStmt), KwCreateTable)

LastIsInsert == UpperStartsWith(Trim(lastStmt), KwInsertInto)

LastCreateInfo == ParseCreateTable(Trim(lastStmt), impl)

LastInsertInfo == ParseInsertInto(Trim(lastStmt))

\* the positions of the registry entries of that name
EntriesNamed(tbls, name) == {i \in 1..Len(tbls) : tbls[i].tableName = name}

\* the last call was a successful CREATE TABLE for a name that had an entry
RecreateCase ==
    /\ LastDispatched /\ LastIsCreate /\ LastCreateInfo.ok
    /\ EntriesNamed(before.tables, LastCreateInfo.tableName) # {}

\* C1: after a successful CREATE TABLE for a name that already has an entry, the
\* entry has the columns of the new statement and no data, the registry holds
\* exactly one entry of that name, and every other table is as it was.
C1_RecreateReplaces ==
    RecreateCase =>
        LET name == LastCreateInfo.tableName
            i    == TablesIndex(tables, name)
        IN  /\ Cardinality(EntriesNamed(tables, name)) = 1
            /\ tables[i].columns = LastCreateInfo.columns
            /\ tables[i].data = <<>>
            /\ (lastStmt = StmtCreateTQuoted =>
                   tables[i].columns = <<[name |-> <<"c">>, type |-> <<"I","N","T">>]>>)
            /\ Len(tables) = Len(before.tables)
            /\ \A j \in 1..Len(tables) : j # i => tables[j] = before.tables[j]

\* C1 witness: a table that held rows was created again and is now empty
C1_Witness ==
    /\ RecreateCase
    /\ lastStmt = StmtCreateTQuoted
    /\ \E i \in EntriesNamed(before.tables, <<"t">>) : Len(before.tables[i].data) > 0
    /\ \E i \in EntriesNamed(tables, <<"t">>) : tables[i].data = <<>>

\* the last call was an INSERT INTO, past the limit check, whose table name has no
\* entry made by an earlier CREATE TABLE
OrphanInsertCase ==
    /\ ~IsBlank(lastStmt) /\ result # "stop" /\ LastIsInsert /\ LastInsertInfo.ok
    /\ EntriesNamed(before.tables, LastInsertInfo.tableName) = {}

\* C2: an INSERT INTO whose table name has no entry returns continue, raises no
\* error and leaves the registry unchanged.
C2_OrphanInsertIgnored ==
    OrphanInsertCase => result = "continue" /\ tables = before.tables

\* C3: with a limit N >= 1 exactly the first N non-empty statements are dispatched
\* (whatever they are), and a call beyond them returns stop and changes neither the
\* registry nor insideTransaction nor currentTable.
C3_LimitIsCeiling ==
    limit >= 1 =>
        /\ dispatched = (IF presented <= limit THEN presented ELSE limit)
        /\ (~IsBlank(lastStmt) => (result = "stop" <=> presented > limit))
        /\ (result = "stop" =>
               /\ tables = before.tables
               /\ insideTransaction = before.insideTransaction
               /\ currentTable = before.currentTable)

\* C3 witness: statement N + 1, a CREATE TABLE that would have parsed, is refused
C3_Witness ==
    /\ limit = 2 /\ presented = 3 /\ dispatched = 2 /\ result = "stop"
    /\ lastStmt = StmtCreateU /\ tables = before.tables
    /\ EntriesNamed(tables, <<"u">>) = {}

\* the last call was an INSERT INTO that reached an entry of the registry
InsertCase ==
    /\ LastDispatched /\ LastIsInsert /\ LastInsertInfo.ok
    /\ EntriesNamed(before.tables, LastInsertInfo.tableName) # {}

\* the records the last call appended to the entry at position i
Appended(i) == SubSeq(tables[i].data, Len(before.tables[i].data) + 1, Len(tables[i].data))

ColumnNames(columns) == [k \in 1..Len(columns) |-> columns[k].name]

\* C5: each appended record maps the value at position k to the name of the k-th
\* declared column; a row with fewer values than columns has keys for the first
\* positions only, values beyond the column count are dropped, and a column list
\* written in the statement is not consulted.
C5_PositionalMapping ==
    InsertCase =>
        LET i    == TablesIndex(before.tables, LastInsertInfo.tableName)
            cols == before.tables[i].columns
            recs == LastInsertInfo.records
            new  == Appended(i)
        IN  /\ Len(new) = Len(recs)
            /\ \A r \in 1..Len(new) :
                   /\ Len(new[r]) = (IF Len(recs[r]) <= Len(cols) THEN Len(recs[r])
                                     ELSE Len(cols))
                   /\ \A k \in 1..Len(new[r]) :
                          new[r][k] = [key |-> cols[k].name, value |-> recs[r][k]]
            /\ (lastStmt = StmtInsertT3 /\ ColumnNames(cols) = <<<<"a">>, <<"b">>>> =>
                   new = << <<[key |-> <<"a">>, value |-> NumberValue(1, 0)],
                              [key |-> <<"b">>, value |-> NullValue]>> >>)
            /\ (lastStmt = StmtInsertT1 /\ ColumnNames(cols) = <<<<"a">>, <<"b">>>> =>
                   new = << <<[key |-> <<"a">>, value |-> NumberValue(5, 0)]>> >>)

\* C5 witness: a two-column table took one row of one value and then one row of
\* three values, given with a column list that names the second column
C5_Witness ==
    /\ InsertCase /\ lastStmt = StmtInsertT3
    /\ \E i \in EntriesNamed(tables, <<"t">>) :
           /\ Len(tables[i].columns) = 2
           /\ Len(tables[i].data) = 2
           /\ Len(tables[i].data[1]) = 1
           /\ Len(tables[i].data[2]) = 2

(***************************************************************************)
(* The value list of an INSERT, read with its quoting, to state what a row *)
(* group is without the splitter of the code                               *)
(***************************************************************************)

\* whether position q of v lies inside a quoted span (the quotes included)
InsideQuotes(v, q) == Scan(v, q - 1).inString

\* the positions of the parentheses of v that lie outside quoted spans
OpenAt(v) == {q \in 1..Len(v) : v[q] = "(" /\ ~InsideQuotes(v, q)}

CloseAt(v) == {q \in 1..Len(v) : v[q] = ")" /\ ~InsideQuotes(v, q)}

\* the k-th smallest element of a set of integers
RECURSIVE Kth(_, _)
Kth(S, k) == IF k = 1 THEN Min(S) ELSE Kth(S \ {Min(S)}, k - 1)

\* v is a list of rows (...) that hold no parentheses outside quotes; the rows
\* are separated by a comma, followed by white space only if spaced allows it;
\* after the last row come at most a semicolon and white space
IsRowList(v, spaced) ==
    LET n == Cardinality(OpenAt(v)) IN
    /\ n >= 1 /\ Cardinality(CloseAt(v)) = n
    /\ Kth(OpenAt(v), 1) = 1
    /\ \A k \in 1..n : Kth(OpenAt(v), k) < Kth(CloseAt(v), k)
    /\ \A k \in 1..(n - 1) :
           LET c == Kth(CloseAt(v), k)
               o == Kth(OpenAt(v), k + 1)
           IN  /\ c + 1 < o /\ v[c + 1] = ","
               /\ (IF spaced THEN SkipSpace(v, c + 2) = o ELSE c + 2 = o)
    /\ LET c == Kth(CloseAt(v), n)
       IN  SkipSpace(v, IF c + 1 <= Len(v) /\ v[c + 1] = ";" THEN c + 2 ELSE c + 1) > Len(v)

\* the number of rows of a row list, and the text inside the k-th row
RowCount(v) == Cardinality(OpenAt(v))

RowText(v, k) == SubSeq(v, Kth(OpenAt(v), k) + 1, Kth(CloseAt(v), k) - 1)

\* no quoted string of v holds the sequence ),( -- and, if spaced, none holds it
\* with white space before the opening parenthesis either
NoSeparatorInQuotes(v, spaced) ==
    \A q \in 1..Len(v) :
        InsideQuotes(v, q) =>
            IF spaced THEN SeparatorEnd(v, q) = 0
            ELSE ~(q + 2 <= Len(v) /\ v[q] = ")" /\ v[q + 1] = "," /\ v[q + 2] = "(")

LastValueList == ValuesString(Trim(lastStmt))

\* what the claim concludes: one record for each row, after the records already
\* there and in the order of the rows, and no other table changed
RowsAppended ==
    LET i == TablesIndex(before.tables, LastInsertInfo.tableName)
        v == LastValueList
    IN  /\ Len(tables) = Len(before.tables)
        /\ \A j \in 1..Len(tables) : j # i => tables[j] = before.tables[j]
        /\ SubSeq(tables[i].data, 1, Len(before.tables[i].data)) = before.tables[i].data
        /\ Len(Appended(i)) = RowCount(v)
        /\ \A k \in 1..RowCount(v) :
               Appended(i)[k] = BuildObject(tables[i].columns, ParseValues(RowText(v, k)),
                                            Len(tables[i].columns))

C9_NoErrorEscapes == result # "throw"

(***************************************************************************)
(* parseValues applied to bounded inputs                                   *)
(***************************************************************************)

\* the longest value string made of ValueAlphabet
MaxValueLen == 4

ValueAlphabet == {"1", ",", "'", "\"", "\\", "(", ")", " "}

\* 1, 'a,b', (2,3)
ExampleValues == <<"1",","," ","'","a",",","b","'",","," ","(","2",",","3",")">>
\* {1,2},"x)",3
ExampleBraces == <<"{","1",",","2","}",",","\"","x",")","\"",",","3">>
\* 'O\\'Brien, Jr', NULL, 5.50
ExampleEscaped == <<"'","O","\\","'","B","r","i","e","n",","," ","J","r","'",","," ","N","U",
    "L","L",","," ","5",".","5","0">>
\* 1, 2, 
ExampleTrailing == <<"1",","," ","2",","," ">>

\* all the strings over the alphabet of length up to n
StringsUpTo(alphabet, n) == UNION {[1..k -> alphabet] : k \in 0..n}

ValueInputs ==
    StringsUpTo(ValueAlphabet, MaxValueLen)
        \cup {ExampleValues, ExampleBraces, ExampleEscaped, ExampleTrailing}

\* a specification that applies a pure function leaves the converter fresh;
\* parseValues and cleanValue are the same text in both implementations
HarnessInit ==
    /\ limit = 0
    /\ skipUnparsable = FALSE
    /\ ConverterInit
    /\ driver = "none"
    /\ outputMode = "combined"
    /\ pending = <<>>
    /\ currentStatement = <<>>
    /\ stopped = FALSE
    /\ tablesAtStop = <<>>
    /\ outputs = <<>>
    /\ output = <<>>

HarnessFrame ==
    UNCHANGED <<impl, limit, skipUnparsable, converterVars, driver, outputMode, pending,
                currentStatement, stopped, tablesAtStop, outputs, input>>

InitValues ==
    /\ impl = "ts"
    /\ HarnessInit
    /\ pc = "parseValues"
    /\ input \in ValueInputs

ApplyParseValues ==
    /\ pc = "parseValues"
    /\ output' = ParseValues(input)
    /\ pc' = "parsedValues"
    /\ HarnessFrame

NextValues == ApplyParseValues

SpecValues == InitValues /\ [][NextValues]_vars

\* where the quoted span opened at position o ends: at the first later occurrence
\* of the opening character that no backslash precedes, or beyond the end of s
QuoteClose(s, o) ==
    LET C == {j \in (o + 1)..Len(s) : s[j] = s[o] /\ s[j - 1] # "\\"}
    IN  IF C = {} THEN Len(s) + 1 ELSE Min(C)

\* the quoted spans of s from position from on, as pairs <<opening, closing>>
RECURSIVE QuotedSpans(_, _)
QuotedSpans(s, from) ==
    LET O == {i \in from..Len(s) : s[i] = "'" \/ s[i] = "\""}
    IN  IF O = {} THEN {}
        ELSE {<<Min(O), QuoteClose(s, Min(O))>>} \cup QuotedSpans(s, QuoteClose(s, Min(O)) + 1)

InQuotedSpan(s, p) == \E sp \in QuotedSpans(s, 1) : sp[1] <= p /\ p <= sp[2]

\* the nesting depth of parentheses and braces outside quoted spans before p
DepthBefore(s, p) ==
    Cardinality({q \in 1..(p - 1) : ~InQuotedSpan(s, q) /\ s[q] \in {"(", "{"}})
        - Cardinality({q \in 1..(p - 1) : ~InQuotedSpan(s, q) /\ s[q] \in {")", "}"}})

\* the commas outside every quoted span and at depth 0
SplitCommas(s) ==
    {p \in 1..Len(s) : s[p] = "," /\ ~InQuotedSpan(s, p) /\ DepthBefore(s, p) = 0}

\* the text between the (k-1)-th and the k-th of these commas
Piece(s, k) ==
    LET C == SplitCommas(s)
    IN  SubSeq(s, IF k = 1 THEN 1 ELSE Kth(C, k - 1) + 1,
                  IF k = Cardinality(C) + 1 THEN Len(s) ELSE Kth(C, k) - 1)

\* one value at each such comma, and a last one if what remains is not blank
ExpectedValues(s) ==
    LET n == Cardinality(SplitCommas(s))
    IN  [k \in 1..n |-> CleanValue(Trim(Piece(s, k)))]
            \o (IF IsBlank(Piece(s, n + 1)) THEN <<>>
                ELSE <<CleanValue(Trim(Piece(s, n + 1)))>>)

\* C7: parseValues emits a value exactly at each comma that is outside every quoted
\* span and at depth 0, and one for the rest if it is not blank; a quoted span ends
\* only at its opening character not preceded by a backslash, and parentheses and
\* braces inside it do not count.  1, 'a,b', (2,3) gives exactly three values.
C7_SplitAtTopLevelCommas ==
    pc = "parsedValues" =>
        /\ output = ExpectedValues(input)
        /\ (input = ExampleValues =>
               output = <<NumberValue(1, 0), StringValue(<<"a", ",", "b">>),
                          StringValue(<<"(", "2", ",", "3", ")">>)>>)

\* C7 witness: the example was split into its three values
C7_Witness ==
    /\ pc = "parsedValues" /\ input = ExampleValues /\ Len(output) = 3
    /\ Cardinality(SplitCommas(input)) = 2
    /\ \E p \in 1..Len(input) : input[p] = "," /\ InQuotedSpan(input, p)
    /\ \E p \in 1..Len(input) : input[p] = "," /\ DepthBefore(input, p) = 1

(***************************************************************************)
(* cleanValue applied to bounded tokens                                    *)
(***************************************************************************)

\* the longest token made of TokenAlphabet
MaxTokenLen == 3

TokenAlphabet == {"5", "0", ".", "-", "+", "'", "\"", "e", " "}

TokenNull == <<"N","U","L","L">>
TokenNullLower == <<"n","u","l","l">>
TokenNullMixed == <<" ","N","u","l","l"," ">>
TokenQuotedNull == <<"'","N","U","L","L","'">>
TokenQuotedFive == <<"'","5","'">>
TokenFive == <<"5">>
TokenFiveDot == <<"5",".">>
TokenDotFive == <<".","5">>
TokenPlusFive == <<"+","5">>
TokenExponent == <<"1","e","5">>
TokenDecimal == <<"-","1","2",".","5","0">>
TokenEscaped == <<"'","O","\\","'","B","r","i","e","n","'">>
TokenDouble == <<"\"","s","a","y"," ","\\","\"","h","i","\\","\"","\"">>
TokenWord == <<"C","U","R","R","E","N","T","_","T","I","M","E","S","T","A","M","P">>

TokenInputs ==
    StringsUpTo(TokenAlphabet, MaxTokenLen)
        \cup {TokenNull, TokenNullLower, TokenNullMixed, TokenQuotedNull, TokenQuotedFive,
              TokenFive, TokenFiveDot, TokenDotFive, TokenPlusFive, TokenExponent,
              TokenDecimal, TokenEscaped, TokenDouble, TokenWord}

InitClean ==
    /\ impl = "ts"
    /\ HarnessInit
    /\ pc = "cleanValue"
    /\ input \in TokenInputs

ApplyCleanValue ==
    /\ pc = "cleanValue"
    /\ output' = CleanValue(input)
    /\ pc' = "cleanedValue"
    /\ HarnessFrame

NextClean == ApplyCleanValue

SpecClean == InitClean /\ [][NextClean]_vars

\* the shapes of the rules, read off the token t
IsNullWord(t) ==
    /\ Len(t) = 4
    /\ t[1] \in {"N", "n"} /\ t[2] \in {"U", "u"} /\ t[3] \in {"L", "l"} /\ t[4] \in {"L", "l"}

IsQuotedToken(t) == Len(t) >= 1 /\ t[1] \in {"'", "\""} /\ t[Len(t)] = t[1]

\* digits only from position lo to position hi, and at least one
DigitRun(t, lo, hi) == lo <= hi /\ \A i \in lo..hi : IsDigit(t[i])

SignLen(t) == IF Len(t) >= 1 /\ t[1] = "-" THEN 1 ELSE 0

IsIntegerShape(t) == DigitRun(t, SignLen(t) + 1, Len(t))

IsDecimalShape(t) ==
    \E d \in 1..Len(t) :
        t[d] = "." /\ DigitRun(t, SignLen(t) + 1, d - 1) /\ DigitRun(t, d + 1, Len(t))

\* the integer that the digits of t spell, a dot left out, with the sign of t
RECURSIVE DigitsUpTo(_, _)
DigitsUpTo(t, hi) ==
    IF hi = 0 THEN 0
    ELSE IF IsDigit(t[hi]) THEN 10 * DigitsUpTo(t, hi - 1) + DigitValue(t[hi])
    ELSE DigitsUpTo(t, hi - 1)

SignedDigits(t) == IF SignLen(t) = 1 THEN 0 - DigitsUpTo(t, Len(t)) ELSE DigitsUpTo(t, Len(t))

RECURSIVE TenTo(_)
TenTo(n) == IF n = 0 THEN 1 ELSE 10 * TenTo(n - 1)

\* C8: cleanValue gives a value for every input, by the first rule that applies to
\* the trimmed token: NULL in any case is null, a token that starts and ends with
\* the same quote is a string, an optional minus and digits is an integer, the same
\* with one dot between digits is a float, anything else is the token itself.  So
\* '5' and 'NULL' stay strings, and 5. .5 +5 1e5 stay strings.
C8_CleanValuePrecedence ==
    pc = "cleanedValue" =>
        LET t == Trim(input) IN
        /\ output.kind \in {"null", "string", "number"}
        /\ (IF IsNullWord(t) THEN output = NullValue
            ELSE IF IsQuotedToken(t)
                 THEN /\ output.kind = "string"
                      /\ (~Includes(t, <<"\\">>) => output.text = SubSeq(t, 2, Len(t) - 1))
            ELSE IF IsIntegerShape(t)
                 THEN output.kind = "number" /\ output.exp = 0 /\ output.mant = SignedDigits(t)
            ELSE IF IsDecimalShape(t)
                 THEN LET frac == Len(t) - IndexOf(t, ".") IN
                      /\ output.kind = "number" /\ output.exp <= frac
                      /\ output.mant * TenTo(frac - output.exp) = SignedDigits(t)
            ELSE output = StringValue(t))
        /\ (input = TokenQuotedFive => output = StringValue(<<"5">>))
        /\ (input = TokenQuotedNull => output = StringValue(<<"N", "U", "L", "L">>))
        /\ (input \in {TokenFiveDot, TokenDotFive, TokenPlusFive, TokenExponent} =>
               output = StringValue(input))
        /\ (input = TokenFive => output = NumberValue(5, 0))
        /\ (input = TokenDecimal => output = NumberValue(-125, 1))
        /\ (input \in {TokenNull, TokenNullLower, TokenNullMixed} => output = NullValue)

\* C8 witness: the quoted NULL was cleaned, and came out as the string
C8_Witness ==
    pc = "cleanedValue" /\ input = TokenQuotedNull /\ output.kind = "string"

(***************************************************************************)
(* parseCreateTable applied to bounded statements                          *)
(***************************************************************************)

\* the most column segments of a built CREATE TABLE statement
MaxSegments == 2

\* CREATE TABLE users (\n    id INT PRIMARY KEY AUTO_INCREMENT,\n    name VARCHAR(255) NOT NULL,\n    email VARCHAR(255) UNIQUE\n)
ReadmeUsers == <<"C","R","E","A","T","E"," ","T","A","B","L","E"," ","u","s","e","r","s"," ",
    "(","\n"," "," "," "," ","i","d"," ","I","N","T"," ","P","R","I","M","A","R","Y"," ","K",
    "E","Y"," ","A","U","T","O","_","I","N","C","R","E","M","E","N","T",",","\n"," "," "," ",
    " ","n","a","m","e"," ","V","A","R","C","H","A","R","(","2","5","5",")"," ","N","O","T"," ",
    "N","U","L","L",",","\n"," "," "," "," ","e","m","a","i","l"," ","V","A","R","C","H","A",
    "R","(","2","5","5",")"," ","U","N","I","Q","U","E","\n",")">>
\* CREATE TABLE products (\n    id INT PRIMARY KEY,\n    name VARCHAR(100),\n    price DECIMAL(10,2)\n)
ReadmeProducts == <<"C","R","E","A","T","E"," ","T","A","B","L","E"," ","p","r","o","d","u","c",
    "t","s"," ","(","\n"," "," "," "," ","i","d"," ","I","N","T"," ","P","R","I","M","A","R",
    "Y"," ","K","E","Y",",","\n"," "," "," "," ","n","a","m","e"," ","V","A","R","C","H","A",
    "R","(","1","0","0",")",",","\n"," "," "," "," ","p","r","i","c","e"," ","D","E","C","I",
    "M","A","L","(","1","0",",","2",")","\n",")">>
\* CREATE TABLE t (
CreateHead == <<"C","R","E","A","T","E"," ","T","A","B","L","E"," ","t"," ","(">>
\* a INT
SegmentPlain == <<"a"," ","I","N","T">>
\* \n`b` VARCHAR(10)
SegmentQuoted == <<"\n",Backtick,"b",Backtick," ","V","A","R","C","H","A","R","(","1","0",")">>
\* c DECIMAL(10,2)
SegmentDecimal == <<"c"," ","D","E","C","I","M","A","L","(","1","0",",","2",")">>
\* PRIMARY KEY (a)
SegmentPrimaryKey == <<"P","R","I","M","A","R","Y"," ","K","E","Y"," ","(","a",")">>
\* e
SegmentNoType == <<"e">>
\* `d` INT DEFAULT '0'
SegmentDefault == <<Backtick,"d",Backtick," ","I","N","T"," ","D","E","F","A","U","L","T"," ",
    "'","0","'">>
\* INT PRIMARY KEY AUTO_INCREMENT
TypeUsersId == <<"I","N","T"," ","P","R","I","M","A","R","Y"," ","K","E","Y"," ","A","U","T",
    "O","_","I","N","C","R","E","M","E","N","T">>
\* VARCHAR(255) NOT NULL
TypeUsersName == <<"V","A","R","C","H","A","R","(","2","5","5",")"," ","N","O","T"," ","N","U",
    "L","L">>
\* VARCHAR(255) UNIQUE
TypeUsersEmail == <<"V","A","R","C","H","A","R","(","2","5","5",")"," ","U","N","I","Q","U",
    "E">>
\* INT PRIMARY KEY
TypeProductsId == <<"I","N","T"," ","P","R","I","M","A","R","Y"," ","K","E","Y">>
\* VARCHAR(100)
TypeProductsName == <<"V","A","R","C","H","A","R","(","1","0","0",")">>
\* DECIMAL(10,2)
TypeProductsPrice == <<"D","E","C","I","M","A","L","(","1","0",",","2",")">>
\* users
NameUsers == <<"u","s","e","r","s">>
\* products
NameProducts == <<"p","r","o","d","u","c","t","s">>
\* id
NameId == <<"i","d">>
\* name
NameName == <<"n","a","m","e">>
\* email
NameEmail == <<"e","m","a","i","l">>
\* price
NamePrice == <<"p","r","i","c","e">>

SegmentTexts ==
    {SegmentPlain, SegmentQuoted, SegmentDecimal, SegmentPrimaryKey, SegmentNoType,
     SegmentDefault}

\* the segments, with a comma between each two
RECURSIVE JoinSegments(_)
JoinSegments(segs) ==
    IF Len(segs) = 0 THEN <<>>
    ELSE IF Len(segs) = 1 THEN segs[1]
    ELSE segs[1] \o <<",">> \o JoinSegments(Tail(segs))

BuiltCreate(segs) == CreateHead \o JoinSegments(segs) \o <<")">>

CreateInputs ==
    {BuiltCreate(segs) : segs \in UNION {[1..k -> SegmentTexts] : k \in 1..MaxSegments}}
        \cup {ReadmeUsers, ReadmeProducts}

InitCreate ==
    /\ impl \in {"ts", "js"}
    /\ HarnessInit
    /\ pc = "parseCreateTable"
    /\ input \in CreateInputs

ApplyParseCreateTable ==
    /\ pc = "parseCreateTable"
    /\ output' = ParseCreateTable(input, impl)
    /\ pc' = "parsedCreateTable"
    /\ HarnessFrame

NextCreate == ApplyParseCreateTable

SpecCreate == InitCreate /\ [][NextCreate]_vars

\* the tables that the README documents for its example
ReadmeUsersTable ==
    [ok |-> TRUE, tableName |-> NameUsers,
     columns |-> <<[name |-> NameId, type |-> TypeUsersId],
                   [name |-> NameName, type |-> TypeUsersName],
                   [name |-> NameEmail, type |-> TypeUsersEmail]>>,
     data |-> <<>>]

ReadmeProductsTable ==
    [ok |-> TRUE, tableName |-> NameProducts,
     columns |-> <<[name |-> NameId, type |-> TypeProductsId],
                   [name |-> NameName, type |-> TypeProductsName],
                   [name |-> NamePrice, type |-> TypeProductsPrice]>>,
     data |-> <<>>]

\* C10: the CREATE TABLE statements of the README example give the tables users and
\* products with the columns id, name, email and id, name, price and the documented
\* types, in the TypeScript and in the JavaScript implementation.
C10_ReadmeColumns ==
    pc = "parsedCreateTable" =>
        /\ (input = ReadmeUsers => output = ReadmeUsersTable)
        /\ (input = ReadmeProducts => output = ReadmeProductsTable)

(***************************************************************************)
(* SpecDriver: processLargeSQL, sqlToJson and sqlToJsonFiles on a file     *)
(***************************************************************************)

\* the most lines of an input file
MaxLines == 3

\* CREATE TABLE `t` (`c` INT);
LineCreate == <<"C","R","E","A","T","E"," ","T","A","B","L","E"," ",Backtick,"t",Backtick," ",
    "(",Backtick,"c",Backtick," ","I","N","T",")",";">>
\* INSERT INTO t
LineInsertHead == <<"I","N","S","E","R","T"," ","I","N","T","O"," ","t">>
\*   VALUES (1), (2);
LineInsertTail == <<" "," ","V","A","L","U","E","S"," ","(","1",")",","," ","(","2",")",";">>
\* -- note
LineComment == <<"-","-"," ","n","o","t","e">>
\* COMMIT
LineCommit == <<"C","O","M","M","I","T">>
\* INSERT INTO constructor VALUES (1);
LineInsertConstructor == <<"I","N","S","E","R","T"," ","I","N","T","O"," ","c","o","n","s","t",
    "r","u","c","t","o","r"," ","V","A","L","U","E","S"," ","(","1",")",";">>
\* --
CommentMark == <<"-","-">>

Lines == {LineCreate, LineInsertHead, LineInsertTail, LineComment, LineCommit,
          LineInsertConstructor}

Files == UNION {[1..k -> Lines] : k \in 0..MaxLines}

\* the content of a file: its lines, each ended by a line feed
RECURSIVE ContentOf(_)
ContentOf(file) ==
    IF Len(file) = 0 THEN <<>> ELSE Head(file) \o <<"\n">> \o ContentOf(Tail(file))

InitDriver ==
    /\ impl \in {"ts", "js"}
    /\ limit \in 0..MaxLimit
    /\ skipUnparsable = FALSE
    /\ ConverterInit
    /\ driver \in {"processLargeSQL", "sqlToJson", "sqlToJsonFiles"}
    /\ outputMode \in (IF driver = "processLargeSQL" THEN {"combined", "separate"}
                       ELSE IF driver = "sqlToJsonFiles" THEN {"separate"}
                       ELSE {"combined"})
    /\ \E file \in Files :
           IF driver = "processLargeSQL"
           THEN /\ pending = file
                /\ input = ContentOf(file)
                /\ pc = (IF file = <<>> THEN "flush" ELSE "readline")
           ELSE /\ pending = <<>>
                /\ input = ContentOf(file)
                /\ pc = "split"
    /\ currentStatement = <<>>
    /\ stopped = FALSE
    /\ tablesAtStop = <<>>
    /\ outputs = <<>>
    /\ output = <<>>

\* if (!shouldContinue) break
ShouldBreakMutNever(signal) == FALSE

ShouldBreak(signal) == signal \in {"stop", "undefined"}

\* what a driver does with the signal of the call it has just made: an error
\* leaves the driver, a stop signal leaves the loop, else the loop goes on
AfterCall(loopPc, exitPc, more) ==
    /\ pc' = (IF result' = "throw" THEN "aborted"
              ELSE IF ShouldBreak(result') \/ ~more THEN exitPc
              ELSE loopPc)
    /\ stopped' = (stopped \/ result' = "stop")
    /\ tablesAtStop' = (IF ~stopped /\ result' = "stop" THEN tables' ELSE tablesAtStop)

\* currentStatement += ' ' + line
AccumulateMutNoSpace(cur, line) == cur \o line

Accumulate(cur, line) == cur \o <<" ">> \o line

\* one turn of the line loop of processLargeSQL
ReadLine ==
    /\ pc = "readline"
    /\ pending # <<>>
    /\ pending' = Tail(pending)
    /\ LET line        == Head(pending)
           trimmedLine == Trim(line)
           more        == Len(pending) > 1
       IN  IF Len(trimmedLine) = 0 \/ StartsWith(trimmedLine, CommentMark)
           THEN /\ pc' = (IF more THEN "readline" ELSE "flush")
                /\ UNCHANGED <<converterVars, currentStatement, stopped, tablesAtStop>>
           ELSE IF EndsWith(trimmedLine, <<";">>)
           THEN /\ Call(Trim(Accumulate(currentStatement, line)))
                /\ currentStatement' = <<>>
                /\ AfterCall("readline", "flush", more)
           ELSE /\ currentStatement' = Accumulate(currentStatement, line)
                /\ pc' = (IF more THEN "readline" ELSE "flush")
                /\ UNCHANGED <<converterVars, stopped, tablesAtStop>>
    /\ UNCHANGED <<impl, limit, skipUnparsable, driver, outputMode, outputs, harnessVars>>

\* after the loop: process any remaining statement; its signal is not looked at
Flush ==
    /\ pc = "flush"
    /\ IF Len(Trim(currentStatement)) # 0
       THEN /\ Call(Trim(currentStatement))
            /\ pc' = (IF result' = "throw" THEN "aborted" ELSE "write")
       ELSE /\ pc' = "write"
            /\ UNCHANGED converterVars
    /\ UNCHANGED <<impl, limit, skipUnparsable, driver, outputMode, pending,
                   currentStatement, stopped, tablesAtStop, outputs, harnessVars>>

\* the pieces that pass the filter of sqlToJson and sqlToJsonFiles
RECURSIVE FilterStatements(_, _)
FilterStatements(pieces, im) ==
    IF Len(pieces) = 0 THEN <<>>
    ELSE LET s    == Head(pieces)
             rest == FilterStatements(Tail(pieces), im)
         IN  IF im = "ts"
             THEN IF Len(Trim(s)) # 0 /\ ~StartsWith(Trim(s), CommentMark)
                  THEN <<Trim(s)>> \o rest ELSE rest
             ELSE IF Len(Trim(s)) # 0 THEN <<s>> \o rest ELSE rest

\* const statements = content.split(';') ...
SplitStatements(content, im) == FilterStatements(SplitChar(content, ";"), im)

Split ==
    /\ pc = "split"
    /\ pending' = SplitStatements(input, impl)
    /\ pc' = (IF pending' = <<>> THEN "write" ELSE "statement")
    /\ UNCHANGED <<impl, limit, skipUnparsable, converterVars, driver, outputMode,
                   currentStatement, stopped, tablesAtStop, outputs, harnessVars>>

\* one turn of the statement loop of sqlToJson and sqlToJsonFiles
Statement ==
    /\ pc = "statement"
    /\ pending # <<>>
    /\ Call(Head(pending))
    /\ pending' = Tail(pending)
    /\ AfterCall("statement", "write", Len(pending) > 1)
    /\ UNCHANGED <<impl, limit, skipUnparsable, driver, outputMode, currentStatement,
                   outputs, harnessVars>>

JsonSuffix == <<".", "j", "s", "o", "n">>

RECURSIVE TotalRecords(_)

TotalRecordsMutLastTable(tbls) == IF Len(tbls) = 0 THEN 0 ELSE Len(tbls[Len(tbls)].data)

\* Object.values(this.tables).reduce((sum, table) => sum + table.data.length, 0)
TotalRecords(tbls) ==
    IF Len(tbls) = 0 THEN 0 ELSE Len(Head(tbls).data) + TotalRecords(Tail(tbls))

\* the files of the tables that writeSeparateJSONFiles writes, in key order
TableFiles(tbls) ==
    [i \in 1..Len(tbls) |->
        [fileName    |-> tbls[i].tableName \o JsonSuffix,
         tableName   |-> tbls[i].tableName,
         columns     |-> tbls[i].columns,
         recordCount |-> Len(tbls[i].data),
         data        |-> tbls[i].data]]

\* the tables of _summary.json
SummaryTables(tbls) ==
    [i \in 1..Len(tbls) |->
        [name        |-> tbls[i].tableName,
         recordCount |-> Len(tbls[i].data),
         fileName    |-> tbls[i].tableName \o JsonSuffix]]

\* what is put out: in mode separate the table files and the summary, else the
\* combined document (metadata and tables), written or returned
OutputOf(kind, tbls) ==
    [kind         |-> kind,
     tables       |-> tbls,
     totalTables  |-> Len(tbls),
     totalRecords |-> TotalRecords(tbls),
     files        |-> IF kind = "separate" THEN TableFiles(tbls) ELSE <<>>,
     summary      |-> IF kind = "separate" THEN SummaryTables(tbls) ELSE <<>>]

\* writeSeparateJSONFiles, writeCombinedJSON, or the returned result: the output
\* is made of the registry as it is now
Write ==
    /\ pc = "write"
    /\ outputs' = Append(outputs, OutputOf(IF driver = "sqlToJson" THEN "result"
                                           ELSE outputMode, tables))
    /\ pc' = "done"
    /\ UNCHANGED <<impl, limit, skipUnparsable, converterVars, driver, outputMode, pending,
                   currentStatement, stopped, tablesAtStop, harnessVars>>

NextDriver == ReadLine \/ Flush \/ Split \/ Statement \/ Write

SpecDriver == InitDriver /\ [][NextDriver]_vars

\* C4: in both drivers, once processStatement has returned the stop signal no later
\* statement is given to it or dispatched, and the output is still produced, once,
\* from the registry as it was at the stop.
C4_StopEndsTheRun ==
    /\ Len(outputs) <= 1
    /\ (pc = "done" => Len(outputs) = 1 /\ outputs[1].tables = tables)
    /\ (stopped =>
           /\ limit >= 1 /\ presented = limit + 1 /\ dispatched = limit
           /\ result = "stop"
           /\ tables = tablesAtStop
           /\ pc \in {"flush", "write", "done"}
           /\ (pc = "flush" => Len(Trim(currentStatement)) = 0)
           /\ (pc = "done" => outputs[1].tables = tablesAtStop))

\* C4 witness: processLargeSQL stopped with a statement still unread, and wrote
\* the table it had accumulated
C4_Witness ==
    /\ driver = "processLargeSQL" /\ stopped /\ pc = "done"
    /\ \E i \in 1..Len(pending) : EndsWith(Trim(pending[i]), <<";">>)
    /\ Len(outputs) = 1 /\ outputs[1].tables = tablesAtStop
    /\ Len(tablesAtStop) = 1

(***************************************************************************)
(* The drivers as functions of their input, to compare one run with        *)
(* another                                                                 *)
(***************************************************************************)

\* the statement loop of sqlToJson and sqlToJsonFiles, begun with the fields cs
RECURSIVE RunStatements(_, _, _, _)
RunStatements(stmts, im, lim, cs) ==
    IF Len(stmts) = 0 THEN [state |-> cs, status |-> "ok"]
    ELSE LET o == ProcessStatementOf(im, lim, cs, Head(stmts))
         IN  IF o.result = "throw" THEN [state |-> o.state, status |-> "aborted"]
             ELSE IF ShouldBreak(o.result) THEN [state |-> o.state, status |-> "stopped"]
             ELSE RunStatements(Tail(stmts), im, lim, o.state)

\* the messages written with console.error during that loop
RECURSIVE RunDiagnostics(_, _, _, _, _)
RunDiagnostics(stmts, im, skip, lim, cs) ==
    IF Len(stmts) = 0 THEN <<>>
    ELSE LET o == ProcessStatementOf(im, lim, cs, Head(stmts))
             d == Diagnostics(im, skip, lim, cs, Head(stmts))
         IN  IF o.result = "throw" \/ ShouldBreak(o.result) THEN d
             ELSE d \o RunDiagnostics(Tail(stmts), im, skip, lim, o.state)

\* the line loop of processLargeSQL and the statement that remains after it,
\* begun with the accumulator cur and the fields cs
RECURSIVE LineLoop(_, _, _, _, _)
LineLoop(lines, cur, im, lim, cs) ==
    IF Len(lines) = 0
    THEN IF Len(Trim(cur)) # 0
         THEN LET o == ProcessStatementOf(im, lim, cs, Trim(cur))
              IN  [state |-> o.state,
                   status |-> IF o.result = "throw" THEN "aborted" ELSE "ok"]
         ELSE [state |-> cs, status |-> "ok"]
    ELSE LET line        == Head(lines)
             trimmedLine == Trim(line)
         IN  IF Len(trimmedLine) = 0 \/ StartsWith(trimmedLine, CommentMark)
             THEN LineLoop(Tail(lines), cur, im, lim, cs)
             ELSE IF EndsWith(trimmedLine, <<";">>)
             THEN LET o == ProcessStatementOf(im, lim, cs, Trim(Accumulate(cur, line)))
                  IN  IF o.result = "throw" THEN [state |-> o.state, status |-> "aborted"]
                      ELSE IF ShouldBreak(o.result)
                      THEN [state |-> o.state, status |-> "stopped"]
                      ELSE LineLoop(Tail(lines), <<>>, im, lim, o.state)
             ELSE LineLoop(Tail(lines), Accumulate(cur, line), im, lim, cs)

\* the run of driver d of implementation im, with limit lim, on a fresh converter
DriverRun(d, file, im, lim) ==
    IF d = "processLargeSQL" THEN LineLoop(file, <<>>, im, lim, NewConverter)
    ELSE RunStatements(SplitStatements(ContentOf(file), im), im, lim, NewConverter)

\* the lines of a content in which every line ends with a line feed
LinesOf(content) ==
    LET parts == SplitChar(content, "\n") IN SubSeq(parts, 1, Len(parts) - 1)

\* the file that the driver of this run was given
FileLines == LinesOf(input)

\* the step-by-step run and the function agree when the run has ended
RunAgreesWithFunction ==
    pc \in {"done", "aborted"} =>
        LET r == DriverRun(driver, FileLines, impl, limit)
        IN  /\ tables = r.state.tables
            /\ processedStatements = r.state.processedStatements
            /\ (pc = "aborted" <=> r.status = "aborted")

IsCommentLine(line) == StartsWith(Trim(line), CommentMark)

\* the file without its comment lines
RECURSIVE CommentFree(_)
CommentFree(file) ==
    IF Len(file) = 0 THEN <<>>
    ELSE IF IsCommentLine(Head(file)) THEN CommentFree(Tail(file))
    ELSE <<Head(file)>> \o CommentFree(Tail(file))

\* every comment line stands before the first statement or after a line that
\* completes a statement
CommentsBetweenStatements(file) ==
    \A i \in 1..Len(file) :
        IsCommentLine(file[i]) =>
            LET kept == {j \in 1..(i - 1) : ~IsCommentLine(file[j])}
            IN  kept = {} \/ EndsWith(Trim(file[Max(kept)]), <<";">>)

\* C11: `--` comment lines before or between the complete statements of an input
\* do not change the resulting registry, in processLargeSQL and in sqlToJson /
\* sqlToJsonFiles alike.
C11_CommentsSkipped ==
    (pc = "done" /\ CommentsBetweenStatements(FileLines)) =>
        tables = DriverRun(driver, CommentFree(FileLines), impl, limit).state.tables

\* the same, for the line loop of processLargeSQL alone
CommentsSkippedByLineLoop == driver = "processLargeSQL" => C11_CommentsSkipped

(***************************************************************************)
(* SpecOutput: statements given to a converter, and then its output        *)
(***************************************************************************)

OutputStatements == {StmtCreateTQuoted, StmtCreateU, StmtInsertT2, StmtInsertU, StmtInsertT1}

InitOutput ==
    /\ impl \in {"ts", "js"}
    /\ limit = 0
    /\ skipUnparsable = FALSE
    /\ ConverterInit
    /\ DriverIdle
    /\ HarnessIdle

\* a statement of the input, given to processStatement
OutputStatement ==
    /\ pc = "idle"
    /\ processedStatements < MaxStatements
    /\ \E sql \in OutputStatements : Call(sql)
    /\ UNCHANGED <<impl, limit, skipUnparsable, driverVars, harnessVars>>

\* writeSeparateJSONFiles or writeCombinedJSON, after the last statement
WriteOutput ==
    /\ pc = "idle"
    /\ \E mode \in {"separate", "combined"} :
           /\ outputMode' = mode
           /\ outputs' = Append(outputs, OutputOf(mode, tables))
    /\ pc' = "done"
    /\ UNCHANGED <<impl, limit, skipUnparsable, converterVars, driver, pending,
                   currentStatement, stopped, tablesAtStop, harnessVars>>

NextOutput == OutputStatement \/ WriteOutput

SpecOutput == InitOutput /\ [][NextOutput]_vars

\* the records of a registry, each named by its table's position and its own
RecordsIn(tbls) == {<<i, j>> \in (1..Len(tbls)) \X (1..8) : j <= Len(tbls[i].data)}

\* C12: in every output totalTables is the number of registry entries and
\* totalRecords the sum of their data lengths; each table file's recordCount is
\* the length of its data; the summary has exactly one entry for each table, with
\* its record count and with fileName the table name followed by .json.
C12_CountsMatchRegistry ==
    \A n \in 1..Len(outputs) :
        LET o == outputs[n] IN
        /\ o.tables = tables
        /\ o.totalTables = Len(tables)
        /\ \A i \in 1..Len(tables) : Len(tables[i].data) <= 8
        /\ o.totalRecords = Cardinality(RecordsIn(tables))
        /\ (o.kind = "separate" =>
               /\ Len(o.files) = Len(tables) /\ Len(o.summary) = Len(tables)
               /\ \A i \in 1..Len(tables) :
                      /\ o.files[i].tableName = tables[i].tableName
                      /\ o.files[i].data = tables[i].data
                      /\ o.files[i].recordCount = Len(o.files[i].data)
                      /\ o.summary[i].name = tables[i].tableName
                      /\ o.summary[i].recordCount = Len(tables[i].data)
                      /\ o.summary[i].fileName = tables[i].tableName \o JsonSuffix
                      /\ o.files[i].fileName = o.summary[i].fileName)

\* C12 witness: two tables, of which the first has two rows, were written as files
C12_Witness ==
    /\ pc = "done" /\ Len(outputs) = 1 /\ outputs[1].kind = "separate"
    /\ Len(tables) = 2 /\ Len(tables[1].data) = 2
    /\ outputs[1].totalRecords = 2 /\ Len(outputs[1].summary) = 2

(***************************************************************************)
(* SpecModule: the exported function sqlToJson, called again and again     *)
(***************************************************************************)

\* the most calls of the exported function
MaxCalls == 2

ModuleFiles ==
    {<<l>> : l \in Lines}
        \cup {<<LineCreate, LineInsertHead, LineInsertTail>>, <<LineComment, LineCreate>>,
              <<LineCreate, LineCreate>>, <<>>}

InitModule ==
    /\ impl \in {"ts", "js"}
    /\ limit \in 0..MaxLimit
    /\ skipUnparsable = FALSE
    /\ ConverterInit
    /\ driver = "sqlToJson"
    /\ outputMode = "combined"
    /\ pc = "module"
    /\ pending = <<>>
    /\ currentStatement = <<>>
    /\ stopped = FALSE
    /\ tablesAtStop = <<>>
    /\ outputs = <<>>
    /\ HarnessIdle

\* new SQLToJSONConverter(options): the fields of the new instance, whatever the
\* fields cs of an instance made earlier
InstanceFieldsMutShared(cs) == cs

InstanceFields(cs) == NewConverter

\* export const sqlToJson = (content, options) => new SQLToJSONConverter(options)
\* .sqlToJson(content); the variables show the instance made last
ModuleSqlToJson ==
    /\ pc = "module"
    /\ Len(outputs) < MaxCalls
    /\ \E file \in ModuleFiles :
         \E content \in {ContentOf(file)} :
           \E stmts \in {SplitStatements(content, impl)} :
             \E r \in {RunStatements(stmts, impl, limit, InstanceFields(Converter))} :
               /\ input' = content
               /\ tables' = r.state.tables
               /\ processedStatements' = r.state.processedStatements
               /\ insideTransaction' = r.state.insideTransaction
               /\ currentTable' = r.state.currentTable
               /\ result' = (IF r.status = "aborted" THEN "throw" ELSE "returned")
               /\ diagnostics' = diagnostics \o
                      RunDiagnostics(stmts, impl, skipUnparsable, limit,
                                     InstanceFields(Converter))
               /\ outputs' = (IF r.status = "aborted" THEN outputs
                              ELSE Append(outputs, OutputOf("result", r.state.tables)))
               /\ output' = (IF r.status = "aborted" THEN <<>>
                             ELSE OutputOf("result", r.state.tables))
    /\ UNCHANGED <<impl, limit, skipUnparsable, lastStmt, before, presented, dispatched,
                   driver, outputMode, pc, pending, currentStatement, stopped, tablesAtStop>>

NextModule == ModuleSqlToJson

SpecModule == InitModule /\ [][NextModule]_vars

LineCommentSemicolon == <<"-","-"," ","w","a","s",":"," ","D","R","O","P"," ","T","A","B","L",
    "E"," ","t",";">>
\*   
LineBlank == <<" "," ">>

LoopLines == {LineCreate, LineInsertHead, LineInsertTail, LineCommentSemicolon, LineBlank,
              LineCommit}

InitLines ==
    /\ impl \in {"ts", "js"}
    /\ limit \in 0..MaxLimit
    /\ skipUnparsable = FALSE
    /\ ConverterInit
    /\ driver = "processLargeSQL"
    /\ outputMode = "separate"
    /\ \E file \in UNION {[1..k -> LoopLines] : k \in 0..MaxLines} :
           /\ pending = file
           /\ input = ContentOf(file)
           /\ pc = (IF file = <<>> THEN "flush" ELSE "readline")
    /\ currentStatement = <<>>
    /\ stopped = FALSE
    /\ tablesAtStop = <<>>
    /\ outputs = <<>>
    /\ output = <<>>

NextLines == ReadLine \/ Flush \/ Write

SpecLines == InitLines /\ [][NextLines]_vars

\* a line that the loop passes over, and a line that ends a statement
IsSkippedLine(line) == Len(Trim(line)) = 0 \/ StartsWith(Trim(line), CommentMark)

IsTerminator(line) == ~IsSkippedLine(line) /\ EndsWith(Trim(line), <<";">>)

\* the lines a..b of the file that are not skipped, joined by single spaces
RECURSIVE JoinKept(_, _, _)
JoinKept(file, a, b) ==
    IF a > b THEN <<>>
    ELSE IF IsSkippedLine(file[b]) THEN JoinKept(file, a, b - 1)
    ELSE IF \A i \in a..(b - 1) : IsSkippedLine(file[i]) THEN file[b]
    ELSE JoinKept(file, a, b - 1) \o <<" ">> \o file[b]

\* the last terminating line among the first n lines, or 0
LastTerminator(file, n) == Max({0} \cup {i \in 1..n : IsTerminator(file[i])})

\* C14: processLargeSQL calls processStatement once for each line that is not
\* skipped and whose trimmed form ends with a semicolon, in file order, with the
\* text (trimmed) of the lines not skipped since the previous such line joined by
\* single spaces; the accumulator is empty after each call; blank lines and --
\* lines neither end a statement nor add text; what is left at the end of the
\* input is given once, and nothing is given after the loop stopped on the limit.
C14_LineLoopStatements ==
    (driver = "processLargeSQL" /\ pc # "aborted") =>
        LET file    == FileLines
            n       == Len(file) - Len(pending)
            t       == LastTerminator(file, n)
            left    == JoinKept(file, t + 1, n)
            flushed == pc \in {"write", "done"} /\ Len(left) # 0
        IN  /\ presented = Cardinality({i \in 1..n : IsTerminator(file[i])})
                               + (IF flushed THEN 1 ELSE 0)
            /\ currentStatement = (IF Len(left) = 0 THEN <<>> ELSE <<" ">> \o left)
            /\ (t = n => currentStatement = <<>>)
            /\ (presented > 0 /\ ~flushed =>
                   lastStmt = Trim(JoinKept(file, LastTerminator(file, t - 1) + 1, t)))
            /\ (flushed => lastStmt = Trim(left) /\ n = Len(file))
            /\ (pc \in {"write", "done"} /\ ~stopped => n = Len(file))
            /\ (stopped => t = n /\ ~flushed /\ result = "stop")

\* C14 witness: a statement of two lines with a comment that ends with a semicolon
\* between them was given as one statement, the comment left out
C14_Witness ==
    /\ driver = "processLargeSQL" /\ pc = "done" /\ presented = 1
    /\ FileLines = <<LineInsertHead, LineCommentSemicolon, LineInsertTail>>
    /\ lastStmt = LineInsertHead \o <<" ">> \o LineInsertTail

(***************************************************************************)
(* SpecInsert: a table is created, then one INSERT built from a head and   *)
(* a list of rows is given to processStatement                             *)
(***************************************************************************)

MaxRows == 3

\* CREATE TABLE `t` (`a` INT, `values_b` INT)
CreateTargetT == <<"C","R","E","A","T","E"," ","T","A","B","L","E"," ",Backtick,"t",Backtick,
    " ","(",Backtick,"a",Backtick," ","I","N","T",","," ",Backtick,"v","a","l","u","e","s","_",
    "b",Backtick," ","I","N","T",")">>
\* CREATE TABLE `myvalues` (`a` INT, `values_b` INT)
CreateTargetMyvalues == <<"C","R","E","A","T","E"," ","T","A","B","L","E"," ",Backtick,"m","y",
    "v","a","l","u","e","s",Backtick," ","(",Backtick,"a",Backtick," ","I","N","T",","," ",
    Backtick,"v","a","l","u","e","s","_","b",Backtick," ","I","N","T",")">>
\* INSERT INTO t VALUES 
HeadPlain == <<"I","N","S","E","R","T"," ","I","N","T","O"," ","t"," ","V","A","L","U","E","S",
    " ">>
\* INSERT INTO myvalues VALUES 
HeadValuesInName == <<"I","N","S","E","R","T"," ","I","N","T","O"," ","m","y","v","a","l","u",
    "e","s"," ","V","A","L","U","E","S"," ">>
\* INSERT INTO t (a, values_b) values 
HeadValuesInColumn == <<"I","N","S","E","R","T"," ","I","N","T","O"," ","t"," ","(","a",","," ",
    "v","a","l","u","e","s","_","b",")"," ","v","a","l","u","e","s"," ">>
\* myvalues
NameMyvalues == <<"m","y","v","a","l","u","e","s">>
\* 1
RowOne == <<"1">>
\* (2,3)
RowNested == <<"(","2",",","3",")">>
\* f(2)
RowCall == <<"f","(","2",")">>
\* 7, 'x'
RowPair == <<"7",","," ","'","x","'">>
\* 
RowEmpty == <<>>
\* ),(
RowSeparator == <<")",",","(">>

InsertHeads == {HeadPlain, HeadValuesInName, HeadValuesInColumn}

RowTexts == {RowOne, RowNested, RowCall, RowPair, RowEmpty}

\* the table that a head names, and the statement that creates it
TargetOf(head) == IF head = HeadValuesInName THEN NameMyvalues ELSE <<"t">>

CreateOf(head) == IF head = HeadValuesInName THEN CreateTargetMyvalues ELSE CreateTargetT

\* the rows, each in its own parentheses, separated by commas
RECURSIVE RowsText(_)
RowsText(rows) ==
    IF Len(rows) = 0 THEN <<>>
    ELSE IF Len(rows) = 1 THEN <<"(">> \o rows[1] \o <<")">>
    ELSE <<"(">> \o rows[1] \o <<")", ",">> \o RowsText(Tail(rows))

InsertText(inp) == inp.head \o RowsText(inp.rows)

InitInsert ==
    /\ impl \in {"ts", "js"}
    /\ HarnessInit
    /\ pc = "create"
    /\ input \in [head : InsertHeads,
                  rows : UNION {[1..k -> RowTexts] : k \in 1..MaxRows}]

\* the CREATE TABLE statement of the target table
CreateTarget ==
    /\ pc = "create"
    /\ Call(CreateOf(input.head))
    /\ pc' = "insert"
    /\ UNCHANGED <<impl, limit, skipUnparsable, driver, outputMode, pending,
                   currentStatement, stopped, tablesAtStop, outputs, harnessVars>>

\* the INSERT statement
InsertRows ==
    /\ pc = "insert"
    /\ Call(InsertText(input))
    /\ pc' = "done"
    /\ UNCHANGED <<impl, limit, skipUnparsable, driver, outputMode, pending,
                   currentStatement, stopped, tablesAtStop, outputs, harnessVars>>

NextInsert == CreateTarget \/ InsertRows

SpecInsert == InitInsert /\ [][NextInsert]_vars

\* the target table after the INSERT, and its columns
TargetTable == tables[TablesIndex(tables, TargetOf(input.head))]

\* the records that the rows give when each row's own text is tokenized
IntactRecords(rows) == [i \in 1..Len(rows) |-> ParseValues(rows[i])]

\* the objects of a list of records, for the columns of the target table
ObjectsOf(records) ==
    [i \in 1..Len(records) |->
        BuildObject(TargetTable.columns, records[i], Len(TargetTable.columns))]

\* a row has parentheses at one of its ends
HasEdgeParenthesis(row) == Len(row) > 0 /\ (row[1] = "(" \/ row[Len(row)] = ")")

\* C15: in an INSERT of several rows, every row reaches the tokenizer as the text
\* between its own parentheses, whatever its position, also when a value of the
\* row starts with ( or ends with ); its record holds the values of that text.
C15_RowsReachTokenizerIntact ==
    (pc = "done" /\ input.head = HeadPlain /\ Len(input.rows) >= 2
     /\ (\A i \in 1..Len(input.rows) : input.rows[i] # RowEmpty)) =>
        /\ result = "continue"
        /\ TargetTable.data = ObjectsOf(IntactRecords(input.rows))

\* holds: rows without a parenthesis at either end, and single rows, are intact
C15_PlainRowsIntact ==
    (pc = "done" /\ input.head = HeadPlain
     /\ (\A i \in 1..Len(input.rows) : input.rows[i] # RowEmpty)
     /\ (Len(input.rows) = 1
            \/ \A j \in 1..Len(input.rows) : ~HasEdgeParenthesis(input.rows[j]))) =>
        TargetTable.data = ObjectsOf(IntactRecords(input.rows))

\* C16: the value list is what follows the VALUES keyword that comes after the
\* table name and the column list; a table name or a column name that contains
\* "values" gives the same records as the row list alone would.
C16_ValueListAfterKeyword ==
    pc = "done" =>
        /\ result = "continue"
        /\ TargetTable.data = ObjectsOf(RecordsOf(SplitGroups(RowsText(input.rows))))

\* holds: with no "values" before the keyword the value list is the row list
C16_PlainHeadValueList ==
    (pc = "done" /\ input.head = HeadPlain) =>
        TargetTable.data = ObjectsOf(RecordsOf(SplitGroups(RowsText(input.rows))))

\* C17: INSERT INTO t VALUES () into a registered table leaves its data unchanged
C17_EmptyRowAppendsNothing ==
    (pc = "done" /\ input.head = HeadPlain /\ input.rows = <<RowEmpty>>) =>
        /\ result = "continue"
        /\ tables = before.tables

(***************************************************************************)
(* Statements that cannot be parsed, and empty statements (Spec)           *)
(***************************************************************************)

\* the last call was a CREATE TABLE or an INSERT INTO, past the limit check, that
\* its parse function could not parse
UnparsableCase ==
    /\ LastDispatched
    /\ \/ LastIsCreate /\ ~LastCreateInfo.ok
       \/ ~LastIsCreate /\ LastIsInsert /\ ~LastInsertInfo.ok

\* C18: for a CREATE TABLE or INSERT INTO that cannot be parsed, a diagnostic is
\* written exactly when skipUnparsable is false; either way the statement is
\* dropped and processStatement returns continue.
C18_DiagnosticUnlessSuppressed ==
    /\ (skipUnparsable => diagnostics = <<>>)
    /\ (UnparsableCase =>
           /\ (~skipUnparsable => Len(diagnostics) > 0)
           /\ result = "continue"
           /\ tables = before.tables)

\* holds: an unparsable statement is dropped and continue is returned
C18_UnparsableDropped ==
    UnparsableCase => result = "continue" /\ tables = before.tables

\* the last call was given an empty statement or one of white space only
BlankCase == result # "none" /\ IsBlank(lastStmt)

\* C19: processStatement on an empty statement returns continue (true) and
\* changes neither the registry nor insideTransaction nor currentTable, in both
\* implementations.
C19_BlankContinues ==
    BlankCase =>
        /\ result = "continue"
        /\ tables = before.tables
        /\ insideTransaction = before.insideTransaction
        /\ currentTable = before.currentTable

\* holds: an empty statement changes no field, in both implementations
C19_BlankChangesNothing == BlankCase => Converter = before

\* the last call was a CREATE TABLE, past the limit check, that gave no schema
FailedCreateCase == LastDispatched /\ LastIsCreate /\ ~LastCreateInfo.ok

\* C20: when parseCreateTable gives no schema, processStatement returns continue
\* and changes nothing: the registry is as before (an entry of that name keeps its
\* columns and rows, none is added) and currentTable keeps its value.
C20_FailedCreateChangesNothing ==
    FailedCreateCase =>
        /\ result = "continue"
        /\ tables = before.tables
        /\ currentTable = before.currentTable
        /\ insideTransaction = before.insideTransaction

\* C20 witness: CREATE TABLE IF NOT EXISTS t was given when t had rows, and t and
\* currentTable are as before
C20_Witness ==
    /\ FailedCreateCase
    /\ lastStmt = StmtCreateIfNotExists
    /\ before.currentTable = <<"t">> /\ currentTable = <<"t">>
    /\ \E i \in EntriesNamed(tables, <<"t">>) :
           Len(tables[i].data) > 0 /\ tables[i] = before.tables[i]

\* the other cause: no closing parenthesis
C20_WitnessNoClose == FailedCreateCase /\ lastStmt = StmtCreateNoClose /\ tables # <<>>

(***************************************************************************)
(* Invariants of the registry (Spec)                                       *)
(***************************************************************************)

\* the names of the columns of a table
ColumnNameSet(table) == {table.columns[i].name : i \in 1..Len(table.columns)}

\* C21: in every registry state every record of a table has as keys only names
\* of that table's current columns, and at most columns.length keys.
C21_RecordKeysAreColumns ==
    \A t \in 1..Len(tables) :
        \A r \in 1..Len(tables[t].data) :
            LET obj == tables[t].data[r] IN
            /\ Len(obj) <= Len(tables[t].columns)
            /\ \A k \in 1..Len(obj) : obj[k].key \in ColumnNameSet(tables[t])

\* C21 witness: three values were inserted into a table of two columns and the
\* record has the two column names as its keys
C21_Witness ==
    /\ lastStmt = StmtInsertT3 /\ result = "continue"
    /\ \E t \in 1..Len(tables) :
           /\ Len(tables[t].columns) = 2
           /\ \E r \in 1..Len(tables[t].data) : Len(tables[t].data[r]) = 2

(***************************************************************************)
(* SpecOrder: tables are created, some with names made of digits, and the  *)
(* registry is written; input keeps the statements given so far            *)
(***************************************************************************)

\* CREATE TABLE `b` (`x` INT)
StmtCreateB == <<"C","R","E","A","T","E"," ","T","A","B","L","E"," ",Backtick,"b",Backtick," ",
    "(",Backtick,"x",Backtick," ","I","N","T",")">>
\* CREATE TABLE `a` (`x` INT)
StmtCreateA == <<"C","R","E","A","T","E"," ","T","A","B","L","E"," ",Backtick,"a",Backtick," ",
    "(",Backtick,"x",Backtick," ","I","N","T",")">>
\* CREATE TABLE `a` (`y` INT)
StmtCreateAAgain == <<"C","R","E","A","T","E"," ","T","A","B","L","E"," ",Backtick,"a",Backtick,
    " ","(",Backtick,"y",Backtick," ","I","N","T",")">>
\* CREATE TABLE `10` (`x` INT)
StmtCreateTen == <<"C","R","E","A","T","E"," ","T","A","B","L","E"," ",Backtick,"1","0",
    Backtick," ","(",Backtick,"x",Backtick," ","I","N","T",")">>
\* CREATE TABLE `9` (`x` INT)
StmtCreateNine == <<"C","R","E","A","T","E"," ","T","A","B","L","E"," ",Backtick,"9",Backtick,
    " ","(",Backtick,"x",Backtick," ","I","N","T",")">>
\* INSERT INTO a VALUES (1)
StmtInsertA == <<"I","N","S","E","R","T"," ","I","N","T","O"," ","a"," ","V","A","L","U","E",
    "S"," ","(","1",")">>

OrderStatements ==
    {StmtCreateB, StmtCreateA, StmtCreateAAgain, StmtCreateTen, StmtCreateNine, StmtInsertA}

\* a statement of the input, given to processStatement
OrderStatement ==
    /\ pc = "idle"
    /\ processedStatements < MaxStatements
    /\ \E sql \in OrderStatements :
           /\ Call(sql)
           /\ input' = Append(input, sql)
    /\ UNCHANGED <<impl, limit, skipUnparsable, driverVars, output>>

NextOrder == OrderStatement \/ WriteOutput

SpecOrder == InitOutput /\ [][NextOrder]_vars

\* the names of the tables that the statements create, in the order in which
\* each was first created
RECURSIVE FirstCreated(_, _)
FirstCreated(stmts, im) ==
    IF Len(stmts) = 0 THEN <<>>
    ELSE LET earlier == FirstCreated(SubSeq(stmts, 1, Len(stmts) - 1), im)
             sql     == Trim(stmts[Len(stmts)])
             info    == ParseCreateTable(sql, im)
         IN  IF UpperStartsWith(sql, KwCreateTable) /\ info.ok
                /\ \A i \in 1..Len(earlier) : earlier[i] # info.tableName
             THEN Append(earlier, info.tableName)
             ELSE earlier

\* the order of the tables in the registry and in what was written from it
OrderKept(expected) ==
    /\ [i \in 1..Len(tables) |-> tables[i].tableName] = expected
    /\ \A n \in 1..Len(outputs) :
           /\ [i \in 1..Len(outputs[n].tables) |-> outputs[n].tables[i].tableName] = expected
           /\ (outputs[n].kind = "separate" =>
                  /\ [i \in 1..Len(outputs[n].files) |-> outputs[n].files[i].tableName]
                         = expected
                  /\ [i \in 1..Len(outputs[n].summary) |-> outputs[n].summary[i].name]
                         = expected)

\* C22: the registry and the serializers enumerate the tables in the order in
\* which their names were first created, for every table name, names made of
\* digits included; creating an existing name again keeps its position and adds
\* no second entry.
C22_CreationOrderKept == OrderKept(FirstCreated(input, impl))

\* holds: no name has two entries, whatever the names
C22_KeysUnique ==
    \A i, j \in 1..Len(tables) : tables[i].tableName = tables[j].tableName => i = j

\* holds: the order is that of first creation while no name is made of digits
C22_OrderKeptWithoutDigitNames ==
    (\A i \in 1..Len(tables) : ~AllDigits(tables[i].tableName)) =>
        OrderKept(FirstCreated(input, impl))

(***************************************************************************)
(* Statements that are passed over, and the transaction flag (Spec)        *)
(***************************************************************************)

\* the last call was, past the limit check, a DROP TABLE, a START TRANSACTION, a
\* COMMIT or a statement of no recognised kind
PassedOverCase ==
    /\ LastDispatched
    /\ \/ StartsWith(Trim(lastStmt), KwStartTransaction)
       \/ StartsWith(Trim(lastStmt), KwCommit)
       \/ UpperStartsWith(Trim(lastStmt), KwDropTable)
       \/ ~LastIsCreate /\ ~LastIsInsert

\* C23: DROP TABLE in any letter case, START TRANSACTION, COMMIT and every
\* unrecognised statement return continue and leave the registry unchanged; a
\* table named in a DROP TABLE keeps its columns and rows, and an INSERT into it
\* given next still appends.
C23_PassedOverStatements ==
    PassedOverCase =>
        /\ result = "continue"
        /\ tables = before.tables
        /\ (UpperStartsWith(Trim(lastStmt), KwDropTable) /\ TablesIndex(tables, <<"t">>) # 0 =>
               LET i == TablesIndex(tables, <<"t">>)
                   o == ProcessStatementOf(impl, 0, Converter, StmtInsertT1)
               IN  /\ o.result = "continue"
                   /\ Len(o.state.tables[i].data) = Len(tables[i].data) + 1)

\* C23 witness: drop table t was given when t had rows, and t still has them
C23_Witness ==
    /\ PassedOverCase /\ lastStmt = StmtDrop
    /\ \E i \in EntriesNamed(tables, <<"t">>) :
           Len(tables[i].data) > 0 /\ tables[i] = before.tables[i]

\* C24: a statement that starts with exactly START TRANSACTION sets
\* insideTransaction to true and one that starts with exactly COMMIT sets it to
\* false, and both return continue; every other statement, the lower-case forms
\* included, leaves insideTransaction as it was.
C24_TransactionFlag ==
    (result # "none") =>
        IF LastDispatched /\ StartsWith(Trim(lastStmt), KwStartTransaction)
        THEN insideTransaction /\ result = "continue"
        ELSE IF LastDispatched /\ StartsWith(Trim(lastStmt), KwCommit)
        THEN ~insideTransaction /\ result = "continue"
        ELSE insideTransaction = before.insideTransaction

\* C24 witness: the lower-case commit was given while the flag, set by an earlier
\* START TRANSACTION, was true, and the flag is still true
C24_Witness ==
    /\ LastDispatched /\ lastStmt = StmtCommitLower
    /\ before.insideTransaction /\ insideTransaction

(***************************************************************************)
(* insideTransaction and currentTable have no influence (Spec)             *)
(***************************************************************************)

\* the converter states that differ from cs at most in insideTransaction and
\* currentTable
Variants(cs) ==
    {[cs EXCEPT !.insideTransaction = it, !.currentTable = ct] :
        it \in BOOLEAN, ct \in {<<>>, <<"t">>, <<"u">>, <<"w">>}}

\* C25: insideTransaction and currentTable never influence how a statement is
\* handled: from every state that differs from the state before the last call
\* only in these two fields, the statement of the last call gives the same
\* returned value and the same registry.
C25_FlagsHaveNoInfluence ==
    (result # "none") =>
        \A v \in Variants(before) :
            LET o == ProcessStatementOf(impl, limit, v, lastStmt) IN
            /\ o.result = result
            /\ o.state.tables = tables
            /\ o.state.processedStatements = processedStatements

\* C25 witness: an INSERT INTO t was given when currentTable was u, and the row
\* went to t
C25_Witness ==
    /\ LastDispatched /\ LastIsInsert /\ LastInsertInfo.ok
    /\ LastInsertInfo.tableName = <<"t">> /\ before.currentTable = <<"u">>
    /\ \E i \in EntriesNamed(tables, <<"t">>) :
           Len(tables[i].data) > Len(before.tables[i].data)

(***************************************************************************)
(* SpecEscape: cleanValue on quoted tokens with backslashes and quotes     *)
(***************************************************************************)

MaxInteriorLen == 4

EscapeAlphabet == {"\\", "'", "\"", "n", " "}

\* the tokens that start and end with the same quote character
QuotedTokens ==
    {<<q>> \o s \o <<q>> : q \in {"'", "\""}, s \in StringsUpTo(EscapeAlphabet, MaxInteriorLen)}
        \cup {<<"'">>, <<"\"">>}

InitEscape ==
    /\ impl \in {"ts", "js"}
    /\ HarnessInit
    /\ pc = "cleanValue"
    /\ input \in QuotedTokens

SpecEscape == InitEscape /\ [][ApplyCleanValue]_vars

\* the positions of s that hold a backslash followed by a quote character
EscapingBackslashes(s) ==
    {i \in 1..Len(s) : s[i] = "\\" /\ i < Len(s) /\ s[i + 1] \in {"'", "\""}}

\* s without the characters at the positions in gone
Without(s, gone) ==
    LET kept == (1..Len(s)) \ gone IN
    [k \in 1..Cardinality(kept) |->
        s[CHOOSE i \in kept : Cardinality({j \in kept : j <= i}) = k]]

\* C26: for a token that starts and ends with the same quote character cleanValue
\* returns the interior in which each backslash before a single or a double quote
\* is gone and every other character is as it was: no other backslash sequence is
\* interpreted and a doubled quote stays two characters.
C26_OnlyQuoteEscapes ==
    (pc = "cleanedValue" /\ input \in QuotedTokens) =>
        LET interior == SubSeq(input, 2, Len(input) - 1) IN
        output = StringValue(Without(interior, EscapingBackslashes(interior)))

\* C26 witness: in '\'\n' the escaped quote lost its backslash and \n was kept
C26_Witness ==
    /\ pc = "cleanedValue"
    /\ input = <<"'", "\\", "'", "\\", "n", "'">>
    /\ output = StringValue(<<"'", "\\", "n">>)

(***************************************************************************)
(* SpecPrefix: table names with SERVMASK_PREFIX_ at the start, twice at    *)
(* the start, and inside the name                                          *)
(***************************************************************************)

\* CREATE TABLE `SERVMASK_PREFIX_x` (`a` INT)
PrefixCreateX == <<"C","R","E","A","T","E"," ","T","A","B","L","E"," ",Backtick,"S","E","R","V",
    "M","A","S","K","_","P","R","E","F","I","X","_","x",Backtick," ","(",Backtick,"a",Backtick,
    " ","I","N","T",")">>
\* CREATE TABLE `SERVMASK_PREFIX_SERVMASK_PREFIX_x` (`a` INT)
PrefixCreateTwice == <<"C","R","E","A","T","E"," ","T","A","B","L","E"," ",Backtick,"S","E","R",
    "V","M","A","S","K","_","P","R","E","F","I","X","_","S","E","R","V","M","A","S","K","_","P",
    "R","E","F","I","X","_","x",Backtick," ","(",Backtick,"a",Backtick," ","I","N","T",")">>
\* CREATE TABLE `y_SERVMASK_PREFIX_x` (`a` INT)
PrefixCreateInside == <<"C","R","E","A","T","E"," ","T","A","B","L","E"," ",Backtick,"y","_",
    "S","E","R","V","M","A","S","K","_","P","R","E","F","I","X","_","x",Backtick," ","(",
    Backtick,"a",Backtick," ","I","N","T",")">>
\* INSERT INTO `SERVMASK_PREFIX_x` VALUES (1)
PrefixInsertX == <<"I","N","S","E","R","T"," ","I","N","T","O"," ",Backtick,"S","E","R","V","M",
    "A","S","K","_","P","R","E","F","I","X","_","x",Backtick," ","V","A","L","U","E","S"," ",
    "(","1",")">>
\* INSERT INTO `x` VALUES (2)
PrefixInsertPlainX == <<"I","N","S","E","R","T"," ","I","N","T","O"," ",Backtick,"x",Backtick,
    " ","V","A","L","U","E","S"," ","(","2",")">>
\* INSERT INTO SERVMASK_PREFIX_SERVMASK_PREFIX_x VALUES (3)
PrefixInsertTwice == <<"I","N","S","E","R","T"," ","I","N","T","O"," ","S","E","R","V","M","A",
    "S","K","_","P","R","E","F","I","X","_","S","E","R","V","M","A","S","K","_","P","R","E","F",
    "I","X","_","x"," ","V","A","L","U","E","S"," ","(","3",")">>
\* INSERT INTO y_SERVMASK_PREFIX_x VALUES (4)
PrefixInsertInside == <<"I","N","S","E","R","T"," ","I","N","T","O"," ","y","_","S","E","R","V",
    "M","A","S","K","_","P","R","E","F","I","X","_","x"," ","V","A","L","U","E","S"," ","(","4",
    ")">>
\* x
NameX == <<"x">>
\* SERVMASK_PREFIX_x
NamePrefixX == <<"S","E","R","V","M","A","S","K","_","P","R","E","F","I","X","_","x">>
\* y_SERVMASK_PREFIX_x
NameInsideX == <<"y","_","S","E","R","V","M","A","S","K","_","P","R","E","F","I","X","_","x">>

PrefixCreates == {PrefixCreateX, PrefixCreateTwice, PrefixCreateInside}

PrefixInserts == {PrefixInsertX, PrefixInsertPlainX, PrefixInsertTwice, PrefixInsertInside}

\* a statement of the input, given to processStatement
PrefixStatement ==
    /\ pc = "idle"
    /\ processedStatements < MaxStatements
    /\ \E sql \in PrefixCreates \cup PrefixInserts : Call(sql)
    /\ UNCHANGED <<impl, limit, skipUnparsable, driverVars, harnessVars>>

SpecPrefix == InitOutput /\ [][PrefixStatement]_vars

\* the name under which the table of a statement is registered: the name written
\* in it without one leading SERVMASK_PREFIX_
RegisteredName(sql) ==
    IF sql \in {PrefixCreateX, PrefixInsertX, PrefixInsertPlainX} THEN NameX
    ELSE IF sql \in {PrefixCreateTwice, PrefixInsertTwice} THEN NamePrefixX
    ELSE NameInsideX

TableNames(tbls) == {tbls[i].tableName : i \in 1..Len(tbls)}

\* C27: one leading SERVMASK_PREFIX_ is removed from the table name by
\* parseCreateTable and by parseInsertInto: a CREATE TABLE registers the table
\* under the name without it, an INSERT INTO with or without the prefix appends
\* to that entry, only one leading occurrence is removed and the same text
\* inside a name is kept.
C27_PrefixRemovedOnce ==
    (result # "none") =>
        LET name == RegisteredName(lastStmt) IN
        /\ result = "continue"
        /\ TableNames(tables) \subseteq {NameX, NamePrefixX, NameInsideX}
        /\ (lastStmt \in PrefixCreates =>
               /\ TableNames(tables) = TableNames(before.tables) \cup {name}
               /\ currentTable = name
               /\ \E i \in EntriesNamed(tables, name) : tables[i].data = <<>>)
        /\ (lastStmt \in PrefixInserts =>
               /\ TableNames(tables) = TableNames(before.tables)
               /\ \A i \in 1..Len(tables) :
                      Len(tables[i].data) =
                          Len(before.tables[i].data)
                              + (IF tables[i].tableName = name THEN 1 ELSE 0))

\* C27 witness: the table was created as SERVMASK_PREFIX_x, and after an INSERT
\* INTO SERVMASK_PREFIX_x the INSERT INTO x added a second row to the entry x
C27_Witness ==
    /\ lastStmt = PrefixInsertPlainX
    /\ \E i \in EntriesNamed(tables, NameX) :
           Len(before.tables[i].data) = 1 /\ Len(tables[i].data) = 2

(***************************************************************************)
(* SpecAgree: the line driver and the in-memory driver on the same files,  *)
(* without comments                                                        *)
(***************************************************************************)

\* INSERT INTO t VALUES (1);
LineInsertOne == <<"I","N","S","E","R","T"," ","I","N","T","O"," ","t"," ","V","A","L","U","E",
    "S"," ","(","1",")",";">>
\* INSERT INTO t VALUES (2); INSERT INTO t VALUES (3);
LineTwoStatements == <<"I","N","S","E","R","T"," ","I","N","T","O"," ","t"," ","V","A","L","U",
    "E","S"," ","(","2",")",";"," ","I","N","S","E","R","T"," ","I","N","T","O"," ","t"," ","V",
    "A","L","U","E","S"," ","(","3",")",";">>
\* INSERT INTO t VALUES ('a;b');
LineSemicolonInString == <<"I","N","S","E","R","T"," ","I","N","T","O"," ","t"," ","V","A","L",
    "U","E","S"," ","(","'","a",";","b","'",")",";">>

AgreeLines == {LineCreate, LineInsertOne, LineTwoStatements, LineSemicolonInString,
               LineInsertHead, LineInsertTail}

InitAgree ==
    /\ impl \in {"ts", "js"}
    /\ limit \in 0..MaxLimit
    /\ skipUnparsable = FALSE
    /\ ConverterInit
    /\ driver \in {"processLargeSQL", "sqlToJson"}
    /\ outputMode = "combined"
    /\ \E file \in UNION {[1..k -> AgreeLines] : k \in 0..MaxLines} :
           IF driver = "processLargeSQL"
           THEN /\ pending = file
                /\ input = ContentOf(file)
                /\ pc = (IF file = <<>> THEN "flush" ELSE "readline")
           ELSE /\ pending = <<>>
                /\ input = ContentOf(file)
                /\ pc = "split"
    /\ currentStatement = <<>>
    /\ stopped = FALSE
    /\ tablesAtStop = <<>>
    /\ outputs = <<>>
    /\ output = <<>>

SpecAgree == InitAgree /\ [][NextDriver]_vars

\* the driver that was not chosen for this run
OtherDriver == IF driver = "processLargeSQL" THEN "sqlToJson" ELSE "processLargeSQL"

\* C28: for the same text and the same options the line driver and the in-memory
\* driver end with the same registry, also when several statements share a line
\* or a semicolon stands inside a quoted value.
C28_DriversAgree ==
    pc = "done" => tables = DriverRun(OtherDriver, FileLines, impl, limit).state.tables

\* holds: they agree on files in which every line is one whole statement and no
\* value holds a semicolon
C28_AgreeOnWholeStatementLines ==
    (pc = "done" /\ \A i \in 1..Len(FileLines) : FileLines[i] \in {LineCreate, LineInsertOne}) =>
        tables = DriverRun(OtherDriver, FileLines, impl, limit).state.tables

(***************************************************************************)
(* The two implementations, and the limit once reached (Spec)              *)
(***************************************************************************)

OtherImpl == IF impl = "ts" THEN "js" ELSE "ts"

\* C29: from equal states and with equal options processStatement of the
\* JavaScript and of the TypeScript implementation return the same signal and
\* leave the same registry, for every statement.
C29_ImplementationsAgree ==
    (result # "none") =>
        LET o == ProcessStatementOf(OtherImpl, limit, before, lastStmt) IN
        /\ o.result = result
        /\ o.state.tables = tables

\* holds: they agree on every statement that is neither empty nor a CREATE TABLE
C29_AgreeOutsideCreateAndBlank ==
    (result # "none" /\ ~IsBlank(lastStmt) /\ ~LastIsCreate) =>
        LET o == ProcessStatementOf(OtherImpl, limit, before, lastStmt) IN
        /\ o.result = result
        /\ o.state = Converter

\* a stop has been returned by the call before the last one or earlier: only
\* then is the count before the last call above the limit
StoppedBefore == limit # 0 /\ before.processedStatements > limit

\* C30: once processStatement has returned stop, every later call with a
\* non-empty statement returns stop and changes nothing but processedStatements;
\* processedStatements never decreases and grows by exactly one for each
\* non-empty statement presented, dispatched or not.
C30_StopIsAbsorbing ==
    /\ processedStatements = presented
    /\ (result = "stop" <=> (~IsBlank(lastStmt) /\ limit # 0 /\ processedStatements > limit))
    /\ (result # "none" =>
           processedStatements =
               before.processedStatements + (IF IsBlank(lastStmt) THEN 0 ELSE 1))
    /\ (StoppedBefore /\ ~IsBlank(lastStmt) =>
           /\ result = "stop"
           /\ tables = before.tables
           /\ insideTransaction = before.insideTransaction
           /\ currentTable = before.currentTable)

\* C30 witness: with limit 1 the second statement was stopped, and so was the
\* third, which left everything but the count as it was
C30_Witness ==
    /\ limit = 1 /\ processedStatements = 3 /\ StoppedBefore /\ result = "stop"
    /\ tables = before.tables /\ tables # <<>>

====
